---- MODULE Spec2Model ----
(***************************************************************************)
(* Game-theory analysis engine of the study tool: payoff matrices, the     *)
(* dominance analyzer, the IEDS solver, the pure Nash equilibrium finder,  *)
(* the sequential game builder with backward induction, the matrix         *)
(* generator and the question generator.  Indices are 0-based as in the    *)
(* TypeScript source; sequences are 1-based TLA+ sequences.                *)
(***************************************************************************)
EXTENDS Integers, Sequences, FiniteSets, TLC

VARIABLES
  matrix,      \* the PayoffMatrix under analysis
  pc,          \* where the current call stands
  nash,        \* result of findNashEquilibria
  dominated,   \* result of findDominatedStrategies
  game,        \* result of buildSequentialGame
  ieds,        \* locals of performIEDS: steps, activeRows, activeCols, changed
  iedsResult,  \* result of performIEDS(matrix)
  rerun,       \* result of performIEDS on the residual matrix
  alt,         \* an elimination of strictly dominated strategies in free order
  gen,         \* locals of generateMatrix: difficulty, wantMultipleNash, loop, attempt
  question,    \* result of a question generator
  ui           \* the GameState fields the reducer keeps besides matrix, game, question

vars == <<matrix, pc, nash, dominated, game, ieds, iedsResult, rerun, alt,
          gen, question, ui>>

(***************************************************************************)
(* Bounds of the model.                                                    *)
(***************************************************************************)
\* payoffs of the analysed 2x2 matrices range over 0..MaxPayoff
MaxPayoff == 2

\* generated payoffs are drawn from the GenSpan lowest values of their range
\* and its highest value
GenSpan == 1

\* attempt < 100 in both rejection-sampling loops of generateMatrix
MaxAttempts == 100

\* the index range 0..n-1 of a JavaScript array of length n
Rng(n) == 0 .. (n - 1)

(***************************************************************************)
(* lib/utils.ts                                                            *)
(***************************************************************************)
strategyLabel(player, index, size) ==
  IF player = "A"
    THEN (IF size = 2 THEN <<"Top", "Bottom">>[index + 1]
                      ELSE <<"Top", "Middle", "Bottom">>[index + 1])
    ELSE (IF size = 2 THEN <<"Left", "Right">>[index + 1]
                      ELSE <<"Left", "Center", "Right">>[index + 1])

(***************************************************************************)
(* lib/types.ts: PayoffMatrix.  cells[r][c] is a record [a, b].            *)
(***************************************************************************)
PayoffMatrix(rows, cols, cells) ==
  [rows |-> rows, cols |-> cols, cells |-> cells,
   rowLabels |-> [i \in Rng(rows) |-> strategyLabel("A", i, rows)],
   colLabels |-> [i \in Rng(cols) |-> strategyLabel("B", i, cols)]]

\* all rows x cols grids of payoffs drawn from the integer set P
Grids(rows, cols, P) == [Rng(rows) -> [Rng(cols) -> [a : P, b : P]]]

\* the cells of a matrix in row-major scan order
RowMajor(m) ==
  [k \in 1 .. (m.rows * m.cols) |->
     [row |-> (k - 1) \div m.cols, col |-> (k - 1) % m.cols]]

(***************************************************************************)
(* lib/nash.ts: findNashEquilibria                                         *)
(***************************************************************************)
\* a best response that has to beat every other row strictly
isBestForA_strictOnly(m, r, c) ==
  \A r2 \in Rng(m.rows) : ~(r2 # r /\ m.cells[r2][c].a >= m.cells[r][c].a)

\* the r2 loop: no other row gives Player A strictly more in column c
isBestForA(m, r, c) ==
  \A r2 \in Rng(m.rows) : ~(r2 # r /\ m.cells[r2][c].a > m.cells[r][c].a)

\* the c2 loop: no other column gives Player B strictly more in row r
isBestForB(m, r, c) ==
  \A c2 \in Rng(m.cols) : ~(c2 # c /\ m.cells[r][c2].b > m.cells[r][c].b)

NashRecord(m, r, c) ==
  [row |-> r, col |-> c, rowLabel |-> m.rowLabels[r],
   colLabel |-> m.colLabels[c], payoffs |-> m.cells[r][c]]

RECURSIVE NashScan(_, _, _)
NashScan(m, k, equilibria) ==
  IF k > m.rows * m.cols THEN equilibria
  ELSE LET r == RowMajor(m)[k].row
           c == RowMajor(m)[k].col
       IN  NashScan(m, k + 1,
             IF isBestForA(m, r, c) /\ isBestForB(m, r, c)
               THEN Append(equilibria, NashRecord(m, r, c))
               ELSE equilibria)

findNashEquilibria(m) == NashScan(m, 1, <<>>)

(***************************************************************************)
(* lib/dominated.ts: findDominatedStrategies                               *)
(***************************************************************************)
NoFlags ==
  [allGreaterOrEqual |-> TRUE, someStrictlyGreater |-> FALSE,
   allStrictlyGreater |-> TRUE]

\* a loop body that forgets to clear allStrictlyGreater on equal payoffs
FlagStep_tieKeepsStrict(f, payoffI, payoffJ) ==
  IF payoffJ < payoffI
    THEN [f EXCEPT !.allGreaterOrEqual = FALSE, !.allStrictlyGreater = FALSE]
    ELSE [allGreaterOrEqual |-> f.allGreaterOrEqual,
          someStrictlyGreater |-> f.someStrictlyGreater \/ payoffJ > payoffI,
          allStrictlyGreater |-> f.allStrictlyGreater]

\* one pass of a comparison loop body on the payoffs of the candidate
\* (payoffI) and of the would-be dominator (payoffJ); the first branch is
\* the one that breaks out of the loop
FlagStep(f, payoffI, payoffJ) ==
  IF payoffJ < payoffI
    THEN [f EXCEPT !.allGreaterOrEqual = FALSE, !.allStrictlyGreater = FALSE]
    ELSE [allGreaterOrEqual |-> f.allGreaterOrEqual,
          someStrictlyGreater |-> f.someStrictlyGreater \/ payoffJ > payoffI,
          allStrictlyGreater |-> f.allStrictlyGreater /\ ~(payoffJ <= payoffI)]

\* the loop over columns comparing Player A's rows i and j
RECURSIVE RowCompare(_, _, _, _, _)
RowCompare(m, i, j, c, f) ==
  IF c >= m.cols THEN f
  ELSE IF m.cells[j][c].a < m.cells[i][c].a
         THEN FlagStep(f, m.cells[i][c].a, m.cells[j][c].a)
         ELSE RowCompare(m, i, j, c + 1,
                         FlagStep(f, m.cells[i][c].a, m.cells[j][c].a))

\* the loop over rows comparing Player B's columns c1 and c2
RECURSIVE ColCompare(_, _, _, _, _)
ColCompare(m, c1, c2, r, f) ==
  IF r >= m.rows THEN f
  ELSE IF m.cells[r][c2].b < m.cells[r][c1].b
         THEN FlagStep(f, m.cells[r][c1].b, m.cells[r][c2].b)
         ELSE ColCompare(m, c1, c2, r + 1,
                         FlagStep(f, m.cells[r][c1].b, m.cells[r][c2].b))

Dominates(f) ==
  f.allStrictlyGreater \/ (f.allGreaterOrEqual /\ f.someStrictlyGreater)

alreadyRecorded(results, player, i, j) ==
  \E n \in 1 .. Len(results) :
    /\ results[n].dominated.player = player
    /\ results[n].dominated.index = i
    /\ results[n].by.index = j

DominationResult(player, i, j, labels, f) ==
  [dominated |-> [player |-> player, index |-> i, label |-> labels[i]],
   by |-> [player |-> player, index |-> j, label |-> labels[j]],
   strict |-> f.allStrictlyGreater]

\* the i, j loops over Player A's rows; k enumerates the pairs (i, j)
RECURSIVE DominatedRows(_, _, _)
DominatedRows(m, k, results) ==
  IF k >= m.rows * m.rows THEN results
  ELSE LET i == k \div m.rows
           j == k % m.rows
           f == RowCompare(m, i, j, 0, NoFlags)
       IN  DominatedRows(m, k + 1,
             IF i # j /\ Dominates(f) /\ ~alreadyRecorded(results, "A", i, j)
               THEN Append(results, DominationResult("A", i, j, m.rowLabels, f))
               ELSE results)

\* the c1, c2 loops over Player B's columns
RECURSIVE DominatedCols(_, _, _)
DominatedCols(m, k, results) ==
  IF k >= m.cols * m.cols THEN results
  ELSE LET c1 == k \div m.cols
           c2 == k % m.cols
           f == ColCompare(m, c1, c2, 0, NoFlags)
       IN  DominatedCols(m, k + 1,
             IF c1 # c2 /\ Dominates(f) /\ ~alreadyRecorded(results, "B", c1, c2)
               THEN Append(results, DominationResult("B", c1, c2, m.colLabels, f))
               ELSE results)

findDominatedStrategies(m) == DominatedCols(m, 0, DominatedRows(m, 0, <<>>))

(***************************************************************************)
(* lib/ieds.ts: performIEDS.  A JavaScript Set iterates in insertion       *)
(* order and delete() keeps the order of the rest, so activeRows and       *)
(* activeCols are sequences without repetition.                            *)
(***************************************************************************)
\* null, told apart from every object by its fields
NULL == [null |-> TRUE]

\* new Set(Array.from({length: n}, (_, i) => i))
IndexSet(n) == [k \in 1 .. n |-> k - 1]

\* Set.prototype.delete
SetDelete(S, x) == SelectSeq(S, LAMBDA y : y # x)

\* a row check that accepts equal payoffs (weak instead of strict)
rowStrictlyGreater_weak(m, i, j, activeCols) ==
  \A n \in 1 .. Len(activeCols) :
    ~(m.cells[j][activeCols[n]].a < m.cells[i][activeCols[n]].a)

\* the c loop of the row check: row j beats row i in every active column
rowStrictlyGreater(m, i, j, activeCols) ==
  \A n \in 1 .. Len(activeCols) :
    ~(m.cells[j][activeCols[n]].a <= m.cells[i][activeCols[n]].a)

\* a column check that accepts equal payoffs (weak instead of strict)
colStrictlyGreater_weak(m, c1, c2, activeRows) ==
  \A n \in 1 .. Len(activeRows) :
    ~(m.cells[activeRows[n]][c2].b < m.cells[activeRows[n]][c1].b)

\* the r loop of the column check: column c2 beats c1 in every active row
colStrictlyGreater(m, c1, c2, activeRows) ==
  \A n \in 1 .. Len(activeRows) :
    ~(m.cells[activeRows[n]][c2].b <= m.cells[activeRows[n]][c1].b)

\* a row scan that takes a row to be dominated by itself
ScanRows_selfDominates(m, activeRows, activeCols, k) ==
  IF Len(activeRows) > 0 THEN <<activeRows[1], activeRows[1]>> ELSE <<>>

\* the nested for-of loops over activeRows: the first pair (i, j), in
\* iteration order, with i strictly dominated by j; <<>> when there is none
RECURSIVE ScanRows(_, _, _, _)
ScanRows(m, activeRows, activeCols, k) ==
  LET n == Len(activeRows)
  IN  IF k >= n * n THEN <<>>
      ELSE LET i == activeRows[(k \div n) + 1]
               j == activeRows[(k % n) + 1]
           IN  IF i # j /\ rowStrictlyGreater(m, i, j, activeCols)
                 THEN <<i, j>>
                 ELSE ScanRows(m, activeRows, activeCols, k + 1)

\* a column scan that stops after the first candidate column
ScanCols_firstOnly(m, activeRows, activeCols, k) ==
  IF Len(activeCols) >= 2
       /\ colStrictlyGreater(m, activeCols[1], activeCols[2], activeRows)
    THEN <<activeCols[1], activeCols[2]>>
    ELSE <<>>

\* the nested for-of loops over activeCols
RECURSIVE ScanCols(_, _, _, _)
ScanCols(m, activeRows, activeCols, k) ==
  LET n == Len(activeCols)
  IN  IF k >= n * n THEN <<>>
      ELSE LET c1 == activeCols[(k \div n) + 1]
               c2 == activeCols[(k % n) + 1]
           IN  IF c1 # c2 /\ colStrictlyGreater(m, c1, c2, activeRows)
                 THEN <<c1, c2>>
                 ELSE ScanCols(m, activeRows, activeCols, k + 1)

\* a step that records the dominating strategy as the eliminated one
IEDSStep_namesDominator(player, i, j, labels) ==
  [eliminated |-> [player |-> player, index |-> j, label |-> labels[j]],
   reason |-> <<player, labels[i], "is strictly dominated by", labels[j]>>]

\* an IEDSStep; the reason text names the player, the eliminated strategy
\* and the dominating strategy
IEDSStep(player, i, j, labels) ==
  [eliminated |-> [player |-> player, index |-> i, label |-> labels[i]],
   reason |-> <<player, labels[i], "is strictly dominated by", labels[j]>>]

\* the state of performIEDS before its while loop
IEDSStart(m) ==
  [steps |-> <<>>, activeRows |-> IndexSet(m.rows),
   activeCols |-> IndexSet(m.cols), changed |-> TRUE]

\* an iteration that scans the columns before the rows
IEDSPass_colsFirst(m, st) ==
  LET rowHit == ScanRows(m, st.activeRows, st.activeCols, 0)
      colHit == ScanCols(m, st.activeRows, st.activeCols, 0)
  IN  IF colHit # <<>>
        THEN [steps |-> Append(st.steps,
                          IEDSStep("B", colHit[1], colHit[2], m.colLabels)),
              activeRows |-> st.activeRows,
              activeCols |-> SetDelete(st.activeCols, colHit[1]),
              changed |-> TRUE]
      ELSE IF rowHit # <<>>
        THEN [steps |-> Append(st.steps,
                          IEDSStep("A", rowHit[1], rowHit[2], m.rowLabels)),
              activeRows |-> SetDelete(st.activeRows, rowHit[1]),
              activeCols |-> st.activeCols, changed |-> TRUE]
      ELSE [st EXCEPT !.changed = FALSE]

\* one iteration of the while loop: rows first, columns only when no row
\* was eliminated
IEDSPass(m, st) ==
  LET rowHit == ScanRows(m, st.activeRows, st.activeCols, 0)
      colHit == ScanCols(m, st.activeRows, st.activeCols, 0)
  IN  IF rowHit # <<>>
        THEN [steps |-> Append(st.steps,
                          IEDSStep("A", rowHit[1], rowHit[2], m.rowLabels)),
              activeRows |-> SetDelete(st.activeRows, rowHit[1]),
              activeCols |-> st.activeCols, changed |-> TRUE]
      ELSE IF colHit # <<>>
        THEN [steps |-> Append(st.steps,
                          IEDSStep("B", colHit[1], colHit[2], m.colLabels)),
              activeRows |-> st.activeRows,
              activeCols |-> SetDelete(st.activeCols, colHit[1]),
              changed |-> TRUE]
      ELSE [st EXCEPT !.changed = FALSE]

\* while (changed) { ... }
RECURSIVE IEDSLoop(_, _)
IEDSLoop(m, st) == IF st.changed THEN IEDSLoop(m, IEDSPass(m, st)) ELSE st

\* Array.prototype.sort((a, b) => a - b) on a sequence of distinct numbers
RECURSIVE SortAsc(_)
SortAsc(S) ==
  IF S = <<>> THEN <<>>
  ELSE LET least == CHOOSE x \in {S[n] : n \in 1 .. Len(S)} :
                      \A n \in 1 .. Len(S) : x <= S[n]
       IN  <<least>> \o SortAsc(SetDelete(S, least))

\* a copy that repeats Player A's payoff as Player B's
deepClone_repeatsA(p) == [a |-> p.a, b |-> p.a]

\* JSON.parse(JSON.stringify(p)) of a Payoffs object: a fresh object with
\* the same own properties
deepClone(p) == [a |-> p.a, b |-> p.b]

\* for r of activeRows, for c of activeCols: push {row, col}
survivingCellsOf(activeRows, activeCols) ==
  [k \in 1 .. (Len(activeRows) * Len(activeCols)) |->
     [row |-> activeRows[((k - 1) \div Len(activeCols)) + 1],
      col |-> activeCols[((k - 1) % Len(activeCols)) + 1]]]

residualMatrixOf(m, activeRows, activeCols) ==
  LET activeRowArr == SortAsc(activeRows)
      activeColArr == SortAsc(activeCols)
  IN  IF Len(activeRowArr) > 0 /\ Len(activeColArr) > 0
        THEN [rows |-> Len(activeRowArr), cols |-> Len(activeColArr),
              cells |-> [i \in Rng(Len(activeRowArr)) |->
                          [j \in Rng(Len(activeColArr)) |->
                             deepClone(m.cells[activeRowArr[i + 1]]
                                              [activeColArr[j + 1]])]],
              rowLabels |-> [i \in Rng(Len(activeRowArr)) |->
                               m.rowLabels[activeRowArr[i + 1]]],
              colLabels |-> [j \in Rng(Len(activeColArr)) |->
                               m.colLabels[activeColArr[j + 1]]]]
        ELSE NULL

\* the IEDSResult built after the loop
IEDSResult(m, st) ==
  [steps |-> st.steps,
   survivingCells |-> survivingCellsOf(st.activeRows, st.activeCols),
   residualMatrix |-> residualMatrixOf(m, st.activeRows, st.activeCols)]

performIEDS(m) == IEDSResult(m, IEDSLoop(m, IEDSStart(m)))

(***************************************************************************)
(* lib/sequential.ts: buildSequentialGame.  Strings that the code parses   *)
(* back (the leaf ids) are sequences of one-character strings.             *)
(***************************************************************************)
Digits == <<"0", "1", "2", "3", "4", "5", "6", "7", "8", "9">>

\* the decimal text of a non-negative integer inside a template literal
RECURSIVE NumStr(_)
NumStr(n) ==
  IF n < 10 THEN <<Digits[n + 1]>>
  ELSE NumStr(n \div 10) \o <<Digits[(n % 10) + 1]>>

\* `leaf-${row}-${col}`
LeafId(row, col) ==
  <<"l", "e", "a", "f", "-">> \o NumStr(row) \o <<"-">> \o NumStr(col)

\* String.prototype.split with a one-character separator
RECURSIVE SplitFrom(_, _, _, _, _)
SplitFrom(s, sep, k, cur, parts) ==
  IF k > Len(s) THEN Append(parts, cur)
  ELSE IF s[k] = sep THEN SplitFrom(s, sep, k + 1, <<>>, Append(parts, cur))
  ELSE SplitFrom(s, sep, k + 1, Append(cur, s[k]), parts)

Split(s, sep) == SplitFrom(s, sep, 1, <<>>, <<>>)

NaN == "NaN"

IsDigit(ch) == \E d \in 1 .. 10 : Digits[d] = ch

DigitVal(ch) == (CHOOSE d \in 1 .. 10 : Digits[d] = ch) - 1

\* parseInt(text, 10) on text without sign or blanks: the longest prefix of
\* digits, NaN when the text does not start with a digit
RECURSIVE ParseDigits(_, _, _)
ParseDigits(s, k, acc) ==
  IF k > Len(s) \/ ~IsDigit(s[k]) THEN acc
  ELSE ParseDigits(s, k + 1, acc * 10 + DigitVal(s[k]))

parseInt(s) ==
  IF Len(s) = 0 \/ ~IsDigit(s[1]) THEN NaN ELSE ParseDigits(s, 1, 0)

OtherPlayer(p) == IF p = "A" THEN "B" ELSE "A"

\* the labels of a player's strategies as a 1-based sequence
LabelSeq(labels, n) == [k \in 1 .. n |-> labels[k - 1]]

StrategiesOf(m, player) ==
  IF player = "A" THEN LabelSeq(m.rowLabels, m.rows)
                  ELSE LabelSeq(m.colLabels, m.cols)

LeafNode(m, row, col) ==
  [id |-> LeafId(row, col), payoffs |-> m.cells[row][col], isTerminal |-> TRUE]

\* a second-mover node whose leaves take the first mover's index as the row
\* whoever moves first
SecondNode_firstIsRow(m, firstMover, firstIdx) ==
  LET secondMover == OtherPlayer(firstMover)
      secondStrategies == StrategiesOf(m, secondMover)
      firstLabel == StrategiesOf(m, firstMover)[firstIdx + 1]
  IN  [id |-> <<secondMover, "-after-", firstLabel>>,
       player |-> secondMover, label |-> secondMover,
       children |->
         [s \in 1 .. Len(secondStrategies) |->
            [label |-> secondStrategies[s],
             child |-> LeafNode(m, firstIdx, s - 1)]]]

\* the node of the second mover after the first mover's strategy firstIdx
SecondNode(m, firstMover, firstIdx) ==
  LET secondMover == OtherPlayer(firstMover)
      secondStrategies == StrategiesOf(m, secondMover)
      firstLabel == StrategiesOf(m, firstMover)[firstIdx + 1]
  IN  [id |-> <<secondMover, "-after-", firstLabel>>,
       player |-> secondMover, label |-> secondMover,
       children |->
         [s \in 1 .. Len(secondStrategies) |->
            LET secondIdx == s - 1
                row == IF firstMover = "A" THEN firstIdx ELSE secondIdx
                col == IF firstMover = "A" THEN secondIdx ELSE firstIdx
            IN  [label |-> secondStrategies[s], child |-> LeafNode(m, row, col)]]]

buildDecisionTree(m, firstMover) ==
  LET firstStrategies == StrategiesOf(m, firstMover)
  IN  [id |-> <<"root">>, player |-> firstMover, label |-> firstMover,
       children |->
         [f \in 1 .. Len(firstStrategies) |->
            [label |-> firstStrategies[f],
             child |-> SecondNode(m, firstMover, f - 1)]]]

isLeaf(node) == "isTerminal" \in DOMAIN node /\ node.isTerminal = TRUE

\* a running maximum is the set of values seen so far that it bounds:
\* the empty set is -Infinity, {v} is the number v
NegInfinity == {}

\* a comparison with >=, which lets a later tied strategy win
Exceeds_orEqual(relevantPayoff, bestPayoff) ==
  \A b \in bestPayoff : relevantPayoff >= b

\* relevantPayoff > bestPayoff
Exceeds(relevantPayoff, bestPayoff) == \A b \in bestPayoff : relevantPayoff > b

\* a player that picks the branch paying it least
BestIdxFrom_lowest(results, player, i, bestIdx, bestPayoff) ==
  LET pay(k) == IF player = "A" THEN results[k + 1].payoffs.a
                                ELSE results[k + 1].payoffs.b
  IN  CHOOSE k \in 0 .. Len(results) - 1 :
        \A j \in 0 .. Len(results) - 1 :
          pay(k) < pay(j) \/ (pay(k) = pay(j) /\ k <= j)

\* the loop choosing bestIdx (0-based) among results for the node's player
RECURSIVE BestIdxFrom(_, _, _, _, _)
BestIdxFrom(results, player, i, bestIdx, bestPayoff) ==
  IF i >= Len(results) THEN bestIdx
  ELSE LET relevantPayoff == IF player = "A" THEN results[i + 1].payoffs.a
                                            ELSE results[i + 1].payoffs.b
       IN  IF Exceeds(relevantPayoff, bestPayoff)
             THEN BestIdxFrom(results, player, i + 1, i, {relevantPayoff})
             ELSE BestIdxFrom(results, player, i + 1, bestIdx, bestPayoff)

RECURSIVE solveBackwardInduction(_, _)
solveBackwardInduction(node, m) ==
  LET results ==
        [n \in 1 .. Len(node.children) |->
           LET edge == node.children[n]
           IN  IF isLeaf(edge.child)
                 THEN [edge |-> edge, leaf |-> edge.child,
                       payoffs |-> edge.child.payoffs]
                 ELSE LET childResult == solveBackwardInduction(edge.child, m)
                      IN  [edge |-> edge, leaf |-> childResult.outcome,
                           payoffs |-> childResult.outcome.payoffs]]
      bestIdx == BestIdxFrom(results, node.player, 0, 0, NegInfinity)
      chosen == results[bestIdx + 1]
  IN  [path |-> IF isLeaf(chosen.edge.child)
                  THEN <<chosen.edge.label>>
                  ELSE <<chosen.edge.label>>
                         \o solveBackwardInduction(chosen.edge.child, m).path,
       outcome |-> chosen.leaf]

\* a parse that reads the two numbers in the wrong order
findLeafCoord_swapped(m, leaf) ==
  LET parts == Split(leaf.id, "-")
  IN  [row |-> parseInt(parts[3]), col |-> parseInt(parts[2])]

\* the coordinates parsed back from the leaf id "leaf-{row}-{col}"
findLeafCoord(m, leaf) ==
  LET parts == Split(leaf.id, "-")
  IN  [row |-> parseInt(parts[2]), col |-> parseInt(parts[3])]

buildSequentialGame(m, firstMover) ==
  LET tree == buildDecisionTree(m, firstMover)
      solved == solveBackwardInduction(tree, m)
  IN  [matrix |-> m, tree |-> tree, firstMover |-> firstMover,
       backwardInductionPath |-> solved.path,
       backwardInductionOutcome |-> findLeafCoord(m, solved.outcome)]

(***************************************************************************)
(* The engine's pure query entry points, each called once on a matrix.     *)
(***************************************************************************)
\* every 2x2 matrix with payoffs in 0..MaxPayoff (ties included)
Matrices2 == {PayoffMatrix(2, 2, g) : g \in Grids(2, 2, 0 .. MaxPayoff)}

\* the one-to-one maps of 0..n-1 onto itself
Perms(n) == {f \in [Rng(n) -> Rng(n)] : \A i, j \in Rng(n) : f[i] = f[j] => i = j}

\* every 3x3 matrix without ties whose payoffs are ranks: Player A's
\* payoffs in a column, and Player B's in a row, are 0, 1, 2 in some order
Matrices3 ==
  {PayoffMatrix(3, 3,
     [r \in Rng(3) |-> [c \in Rng(3) |-> [a |-> pa[c][r], b |-> pb[r][c]]]]) :
       pa \in [Rng(3) -> Perms(3)], pb \in [Rng(3) -> Perms(3)]}

Matrices == Matrices2 \cup Matrices3

Players == {"A", "B"}

Init ==
  /\ matrix \in Matrices
  /\ pc = "idle"
  /\ nash = <<>>
  /\ dominated = <<>>
  /\ game = NULL
  /\ ieds = NULL
  /\ iedsResult = NULL
  /\ rerun = NULL
  /\ alt = NULL
  /\ gen = NULL
  /\ question = NULL
  /\ ui = NULL

CallFindNash ==
  /\ pc = "idle"
  /\ nash' = findNashEquilibria(matrix)
  /\ pc' = "nash"
  /\ UNCHANGED <<matrix, dominated, game, ieds, iedsResult, rerun, alt, gen, question, ui>>

CallFindDominated ==
  /\ pc = "idle"
  /\ dominated' = findDominatedStrategies(matrix)
  /\ pc' = "dominated"
  /\ UNCHANGED <<matrix, nash, game, ieds, iedsResult, rerun, alt, gen, question, ui>>

CallBuildSequentialGame ==
  /\ pc = "idle"
  /\ \E firstMover \in Players : game' = buildSequentialGame(matrix, firstMover)
  /\ pc' = "sequential"
  /\ UNCHANGED <<matrix, nash, dominated, ieds, iedsResult, rerun, alt, gen, question, ui>>

Next == CallFindNash \/ CallFindDominated \/ CallBuildSequentialGame

Spec == Init /\ [][Next]_vars

(***************************************************************************)
(* performIEDS run pass by pass, then run again on its own residual        *)
(* matrix, then compared with an elimination that removes strictly         *)
(* dominated strategies one at a time in any order.                        *)
(***************************************************************************)
InitIEDS ==
  /\ matrix \in Matrices
  /\ pc = "ieds_loop"
  /\ nash = <<>>
  /\ dominated = <<>>
  /\ game = NULL
  /\ ieds = IEDSStart(matrix)
  /\ iedsResult = NULL
  /\ rerun = NULL
  /\ alt = NULL
  /\ gen = NULL
  /\ question = NULL
  /\ ui = NULL

\* one iteration of while (changed)
IEDSIterate ==
  /\ pc = "ieds_loop"
  /\ ieds.changed
  /\ ieds' = IEDSPass(matrix, ieds)
  /\ UNCHANGED <<matrix, pc, nash, dominated, game, iedsResult, rerun, alt, gen, question, ui>>

\* the loop has ended: build survivingCells and residualMatrix, return
IEDSReturn ==
  /\ pc = "ieds_loop"
  /\ ~ieds.changed
  /\ iedsResult' = IEDSResult(matrix, ieds)
  /\ pc' = "ieds_done"
  /\ UNCHANGED <<matrix, nash, dominated, game, ieds, rerun, alt, gen, question, ui>>

\* performIEDS and findDominatedStrategies called on the residual matrix
IEDSOnResidual ==
  /\ pc = "ieds_done"
  /\ iedsResult.residualMatrix # NULL
  /\ rerun' = performIEDS(iedsResult.residualMatrix)
  /\ dominated' = findDominatedStrategies(iedsResult.residualMatrix)
  /\ pc' = "rerun_done"
  /\ UNCHANGED <<matrix, nash, game, ieds, iedsResult, alt, gen, question, ui>>

\* row i is strictly dominated by some other row of R over the columns C
AltRowDominated(m, i, R, C) ==
  \E j \in R \ {i} : \A c \in C : m.cells[j][c].a > m.cells[i][c].a

\* column c is strictly dominated by some other column of C over the rows R
AltColDominated(m, c, R, C) ==
  \E d \in C \ {c} : \A r \in R : m.cells[r][d].b > m.cells[r][c].b

AltBegin ==
  /\ pc = "rerun_done"
  /\ alt' = [rows |-> Rng(matrix.rows), cols |-> Rng(matrix.cols), order |-> <<>>]
  /\ pc' = "alt"
  /\ UNCHANGED <<matrix, nash, dominated, game, ieds, iedsResult, rerun, gen, question, ui>>

AltEliminateRow ==
  /\ pc = "alt"
  /\ \E i \in alt.rows :
       /\ AltRowDominated(matrix, i, alt.rows, alt.cols)
       /\ alt' = [alt EXCEPT !.rows = @ \ {i}, !.order = Append(@, <<"A", i>>)]
  /\ UNCHANGED <<matrix, pc, nash, dominated, game, ieds, iedsResult, rerun, gen, question, ui>>

AltEliminateCol ==
  /\ pc = "alt"
  /\ \E c \in alt.cols :
       /\ AltColDominated(matrix, c, alt.rows, alt.cols)
       /\ alt' = [alt EXCEPT !.cols = @ \ {c}, !.order = Append(@, <<"B", c>>)]
  /\ UNCHANGED <<matrix, pc, nash, dominated, game, ieds, iedsResult, rerun, gen, question, ui>>

NextIEDS ==
  \/ IEDSIterate
  \/ IEDSReturn
  \/ IEDSOnResidual
  \/ AltBegin
  \/ AltEliminateRow
  \/ AltEliminateCol

SpecIEDS == InitIEDS /\ [][NextIEDS]_vars

(***************************************************************************)
(* C1: findNashEquilibria returns exactly the cells whose Player A payoff  *)
(* is >= every Player A payoff of the column and whose Player B payoff is  *)
(* >= every Player B payoff of the row, each once; ties count as best.     *)
(***************************************************************************)
BestResponseCells(m) ==
  {x \in Rng(m.rows) \X Rng(m.cols) :
     /\ \A r2 \in Rng(m.rows) : m.cells[x[1]][x[2]].a >= m.cells[r2][x[2]].a
     /\ \A c2 \in Rng(m.cols) : m.cells[x[1]][x[2]].b >= m.cells[x[1]][c2].b}

C1_NashExactlyBestResponses ==
  pc = "nash" =>
    /\ {<<nash[n].row, nash[n].col>> : n \in 1 .. Len(nash)} = BestResponseCells(matrix)
    /\ Len(nash) = Cardinality(BestResponseCells(matrix))

\* two equilibria in one row: Player B is tied between two best columns
C1_Witness ==
  /\ pc = "nash"
  /\ \E i, j \in 1 .. Len(nash) :
       /\ nash[i].row = nash[j].row
       /\ nash[i].col # nash[j].col

(***************************************************************************)
(* C2: findDominatedStrategies returns exactly one result per ordered pair *)
(* (i, j), i # j, of rows with row j >= row i everywhere and > somewhere   *)
(* for Player A, and likewise per ordered pair of columns for Player B;    *)
(* never a strategy dominated by itself; strict is true iff the inequality *)
(* is strict in every compared column (row).                               *)
(***************************************************************************)
PayoffOf(m, player, own, other) ==
  IF player = "A" THEN m.cells[own][other].a ELSE m.cells[other][own].b

OwnCount(m, player) == IF player = "A" THEN m.rows ELSE m.cols

OtherCount(m, player) == IF player = "A" THEN m.cols ELSE m.rows

WeaklyDominatedBy(m, player, i, j) ==
  /\ \A o \in Rng(OtherCount(m, player)) :
       PayoffOf(m, player, j, o) >= PayoffOf(m, player, i, o)
  /\ \E o \in Rng(OtherCount(m, player)) :
       PayoffOf(m, player, j, o) > PayoffOf(m, player, i, o)

StrictlyDominatedBy(m, player, i, j) ==
  \A o \in Rng(OtherCount(m, player)) :
    PayoffOf(m, player, j, o) > PayoffOf(m, player, i, o)

ResultsFor(results, player, i, j) ==
  {n \in 1 .. Len(results) :
     /\ results[n].dominated.player = player
     /\ results[n].dominated.index = i
     /\ results[n].by.index = j}

C2_DominatedExactlyThePairs ==
  pc = "dominated" =>
    /\ \A n \in 1 .. Len(dominated) :
         /\ dominated[n].dominated.index # dominated[n].by.index
         /\ dominated[n].by.player = dominated[n].dominated.player
         /\ dominated[n].strict <=>
              StrictlyDominatedBy(matrix, dominated[n].dominated.player,
                dominated[n].dominated.index, dominated[n].by.index)
    /\ \A player \in Players :
         \A i, j \in Rng(OwnCount(matrix, player)) :
           Cardinality(ResultsFor(dominated, player, i, j)) =
             (IF i # j /\ WeaklyDominatedBy(matrix, player, i, j) THEN 1 ELSE 0)

\* a domination that is weak but not strict is reported, with strict false
C2_Witness ==
  /\ pc = "dominated"
  /\ \E n \in 1 .. Len(dominated) : ~dominated[n].strict

(***************************************************************************)
(* C3: whatever the order in which strictly dominated strategies are       *)
(* removed one at a time until none remains, the surviving rows and        *)
(* columns are those of performIEDS.                                       *)
(***************************************************************************)
AltFixed ==
  /\ \A i \in alt.rows : ~AltRowDominated(matrix, i, alt.rows, alt.cols)
  /\ \A c \in alt.cols : ~AltColDominated(matrix, c, alt.rows, alt.cols)

SurvivingRows(result) ==
  {result.survivingCells[n].row : n \in 1 .. Len(result.survivingCells)}

SurvivingCols(result) ==
  {result.survivingCells[n].col : n \in 1 .. Len(result.survivingCells)}

C3_IEDSOrderIndependent ==
  (pc = "alt" /\ AltFixed) =>
    /\ alt.rows = SurvivingRows(iedsResult)
    /\ alt.cols = SurvivingCols(iedsResult)

\* an elimination of three strategies that began with a column, where
\* performIEDS began with a row
C3_Witness ==
  /\ pc = "alt"
  /\ AltFixed
  /\ Len(alt.order) >= 3
  /\ alt.order[1][1] = "B"
  /\ iedsResult.steps[1].eliminated.player = "A"

(***************************************************************************)
(* C4: backwardInductionOutcome is the cell reached when the second mover  *)
(* answers each first-mover strategy with the lowest-index strategy that   *)
(* maximizes the second mover's own payoff, and the first mover picks the  *)
(* lowest-index strategy maximizing its own payoff at those reply cells.   *)
(***************************************************************************)
CellFor(firstMover, f, s) ==
  IF firstMover = "A" THEN [row |-> f, col |-> s] ELSE [row |-> s, col |-> f]

OwnPayoff(m, player, cell) ==
  IF player = "A" THEN m.cells[cell.row][cell.col].a
                  ELSE m.cells[cell.row][cell.col].b

\* the lowest index of S at which val is greatest
LowestArgMax(S, val(_)) ==
  CHOOSE x \in S :
    /\ \A y \in S : val(x) >= val(y)
    /\ \A y \in S : val(y) = val(x) => x <= y

ReplyTo(m, firstMover, f) ==
  LET second == OtherPlayer(firstMover)
      val(s) == OwnPayoff(m, second, CellFor(firstMover, f, s))
  IN  LowestArgMax(Rng(OwnCount(m, second)), val)

ExpectedOutcome(m, firstMover) ==
  LET val(f) == OwnPayoff(m, firstMover,
                          CellFor(firstMover, f, ReplyTo(m, firstMover, f)))
      first == LowestArgMax(Rng(OwnCount(m, firstMover)), val)
  IN  CellFor(firstMover, first, ReplyTo(m, firstMover, first))

C4_BackwardInductionOutcome ==
  pc = "sequential" =>
    game.backwardInductionOutcome = ExpectedOutcome(matrix, game.firstMover)

\* the second mover is tied between its reply and a later strategy in the
\* chosen branch, and the first mover is tied between two strategies
C4_Witness ==
  /\ pc = "sequential"
  /\ LET out == game.backwardInductionOutcome
         fm == game.firstMover
         sm == OtherPlayer(fm)
     IN  /\ \E s \in Rng(OwnCount(matrix, sm)) :
              LET f == IF fm = "A" THEN out.row ELSE out.col
              IN  /\ CellFor(fm, f, s) # out
                  /\ OwnPayoff(matrix, sm, CellFor(fm, f, s)) =
                       OwnPayoff(matrix, sm, out)
         /\ \E f \in Rng(OwnCount(matrix, fm)) :
              /\ f # (IF fm = "A" THEN out.row ELSE out.col)
              /\ OwnPayoff(matrix, fm, CellFor(fm, f, ReplyTo(matrix, fm, f))) =
                   OwnPayoff(matrix, fm, out)

(***************************************************************************)
(* C5: backwardInductionPath has length 2 and following its two edge       *)
(* labels from the root reaches the leaf whose id leaf-{row}-{col} encodes *)
(* backwardInductionOutcome.                                               *)
(***************************************************************************)
\* the children of node reached by an edge labelled label
Follow(node, label) ==
  {node.children[n].child :
     n \in {k \in 1 .. Len(node.children) : node.children[k].label = label}}

C5_PathLeadsToOutcome ==
  pc = "sequential" =>
    /\ Len(game.backwardInductionPath) = 2
    /\ \E second \in Follow(game.tree, game.backwardInductionPath[1]) :
         /\ Follow(game.tree, game.backwardInductionPath[1]) = {second}
         /\ ~isLeaf(second)
         /\ \E leaf \in Follow(second, game.backwardInductionPath[2]) :
              /\ Follow(second, game.backwardInductionPath[2]) = {leaf}
              /\ isLeaf(leaf)
              /\ leaf.id = LeafId(game.backwardInductionOutcome.row,
                                  game.backwardInductionOutcome.col)

\* Player B moved first and the outcome is off the diagonal, so that row
\* and column cannot be confused
C5_Witness ==
  /\ pc = "sequential"
  /\ game.firstMover = "B"
  /\ game.backwardInductionOutcome.row # game.backwardInductionOutcome.col
  /\ Len(game.backwardInductionPath) = 2

(***************************************************************************)
(* C10: the residual matrix of performIEDS is a fixed point: the dominance *)
(* analyzer finds no strict domination in it, and performIEDS on it        *)
(* records no step and returns an equal residual matrix.                   *)
(***************************************************************************)
C10_ResidualIsFixedPoint ==
  pc = "rerun_done" =>
    /\ \A n \in 1 .. Len(dominated) : ~dominated[n].strict
    /\ rerun.steps = <<>>
    /\ rerun.residualMatrix = iedsResult.residualMatrix

\* a residual that lost both a row and a column
C10_Witness ==
  /\ pc = "rerun_done"
  /\ \E n, k \in 1 .. Len(iedsResult.steps) :
       /\ iedsResult.steps[n].eliminated.player = "A"
       /\ iedsResult.steps[k].eliminated.player = "B"
  /\ rerun.steps = <<>>

(***************************************************************************)
(* lib/matrix.ts: generateMatrix.  Math.random() and randomInt are free    *)
(* choices; of the payoff ranges [0, 9] and [-5, 15] the lowest values and *)
(* the highest value are drawn.                                            *)
(***************************************************************************)
Difficulties == {"easy", "medium", "hard"}

\* a range that is the same for every difficulty
PayoffRange_sameForAll(difficulty) == <<0 - 5, 15>>

\* const [min, max] = difficulty === "easy" ? [0, 9] : [-5, 15]
PayoffRange(difficulty) ==
  IF difficulty = "easy" THEN <<0, 9>> ELSE <<0 - 5, 15>>

\* the values of randomInt(min, max)
randomInt(min, max) == min .. max

\* the draws of randomInt(min, max) that are followed: the n lowest values
\* and the highest
SampleValues(min, max, n) ==
  {v \in randomInt(min, max) : v < min + n \/ v = max}

\* the grids in which a player's payoff depends on the own strategy only
SeparableGrids(rows, cols, P) ==
  {[r \in Rng(rows) |-> [c \in Rng(cols) |-> [a |-> pa[r], b |-> pb[c]]]] :
     pa \in [Rng(rows) -> P], pb \in [Rng(cols) -> P]}

\* the matrices the cell loops draw: for 2x2 every grid over GenSpan + 1
\* sampled values, for 3x3 the separable grids over GenSpan + 2
Candidates(rows, cols, difficulty) ==
  LET min == PayoffRange(difficulty)[1]
      max == PayoffRange(difficulty)[2]
  IN  {PayoffMatrix(rows, cols, g) :
         g \in IF rows = 2 /\ cols = 2
                 THEN Grids(rows, cols, SampleValues(min, max, GenSpan))
                 ELSE SeparableGrids(rows, cols, SampleValues(min, max, GenSpan + 1))}

\* getMatrixSize: the sizes it can return
getMatrixSize(difficulty) ==
  IF difficulty = "easy" THEN {[rows |-> 2, cols |-> 2]}
  ELSE {[rows |-> size, cols |-> size] : size \in {2, 3}}

\* a tie check that looks at Player A's columns only
hasEqualPayoffs_columnsOnly(m) ==
  \E c \in Rng(m.cols) : \E r1, r2 \in Rng(m.rows) :
    r1 < r2 /\ m.cells[r1][c].a = m.cells[r2][c].a

hasEqualPayoffs(m) ==
  \/ \E c \in Rng(m.cols) : \E r1, r2 \in Rng(m.rows) :
       r1 < r2 /\ m.cells[r1][c].a = m.cells[r2][c].a
  \/ \E r \in Rng(m.rows) : \E c1, c2 \in Rng(m.cols) :
       c1 < c2 /\ m.cells[r][c1].b = m.cells[r][c2].b

\* a predicate that asks of an easy matrix what it asks of a medium one
isUsefulMatrix_easyAsMedium(m, difficulty, wantMultipleNash) ==
  /\ ~hasEqualPayoffs(m)
  /\ wantMultipleNash => Len(findNashEquilibria(m)) >= 2
  /\ Len(findNashEquilibria(m)) > 0

isUsefulMatrix(m, difficulty, wantMultipleNash) ==
  IF hasEqualPayoffs(m) THEN FALSE
  ELSE LET dominatedList == findDominatedStrategies(m)
           nashList == findNashEquilibria(m)
       IN  IF wantMultipleNash /\ Len(nashList) < 2 THEN FALSE
           ELSE IF difficulty = "easy"
             THEN Len(dominatedList) > 0 /\ Len(nashList) > 0
             ELSE Len(nashList) > 0

\* the candidates that isUsefulMatrix accepts, per difficulty and constraint
UsefulCandidates ==
  [d \in Difficulties |-> [w \in BOOLEAN |-> [size \in {2, 3} |->
     {m \in Candidates(size, size, d) : isUsefulMatrix(m, d, w)}]]]

\* the constraint passed to isUsefulMatrix by the loop that is running
Constraint(g) == IF g.loop = "first" THEN g.wantMultipleNash ELSE FALSE

InitGen ==
  /\ matrix = NULL
  /\ pc = "gen_loop"
  /\ nash = <<>>
  /\ dominated = <<>>
  /\ game = NULL
  /\ ieds = NULL
  /\ iedsResult = NULL
  /\ rerun = NULL
  /\ alt = NULL
  /\ \E d \in Difficulties, w \in BOOLEAN : \E size \in getMatrixSize(d) :
       gen = [difficulty |-> d, rows |-> size.rows, cols |-> size.cols,
              wantMultipleNash |-> w,
              loop |-> "first", attempt |-> 0, evaluated |-> 0]
  /\ question = NULL
  /\ ui = NULL

\* an iteration whose candidate passes isUsefulMatrix: return it (the loop
\* counters go out of scope)
GenAccept ==
  /\ pc = "gen_loop"
  /\ gen.attempt < MaxAttempts
  /\ \E m \in UsefulCandidates[gen.difficulty][Constraint(gen)][gen.rows] : matrix' = m
  /\ pc' = "gen_accepted"
  /\ gen' = [difficulty |-> gen.difficulty, rows |-> gen.rows, cols |-> gen.cols,
             wantMultipleNash |-> gen.wantMultipleNash, loop |-> gen.loop]
  /\ UNCHANGED <<nash, dominated, game, ieds, iedsResult, rerun, alt, question, ui>>

\* a rejection that restarts the loop it is in
GenReject_restarts ==
  /\ pc = "gen_loop"
  /\ gen.attempt < MaxAttempts
  /\ \E m \in Candidates(gen.rows, gen.cols, gen.difficulty) :
       m \notin UsefulCandidates[gen.difficulty][Constraint(gen)][gen.rows]
  /\ gen' = [gen EXCEPT !.attempt = IF @ = MaxAttempts - 1 THEN 0 ELSE @ + 1,
                        !.evaluated = @ + 1]
  /\ UNCHANGED <<matrix, pc, nash, dominated, game, ieds, iedsResult, rerun,
                 alt, question, ui>>

\* an iteration whose candidate fails isUsefulMatrix: next attempt
GenReject ==
  /\ pc = "gen_loop"
  /\ gen.attempt < MaxAttempts
  /\ \E m \in Candidates(gen.rows, gen.cols, gen.difficulty) :
       m \notin UsefulCandidates[gen.difficulty][Constraint(gen)][gen.rows]
  /\ gen' = [gen EXCEPT !.attempt = @ + 1, !.evaluated = @ + 1]
  /\ UNCHANGED <<matrix, pc, nash, dominated, game, ieds, iedsResult, rerun,
                 alt, question, ui>>

\* the first loop ran out and wantMultipleNash was drawn: second loop
GenRelax ==
  /\ pc = "gen_loop"
  /\ gen.attempt = MaxAttempts
  /\ gen.loop = "first"
  /\ gen.wantMultipleNash
  /\ gen' = [gen EXCEPT !.loop = "second", !.attempt = 0]
  /\ UNCHANGED <<matrix, pc, nash, dominated, game, ieds, iedsResult, rerun,
                 alt, question, ui>>

\* the loops ran out: return a fresh draw without testing it
GenFallback ==
  /\ pc = "gen_loop"
  /\ gen.attempt = MaxAttempts
  /\ gen.loop = "second" \/ ~gen.wantMultipleNash
  /\ matrix' \in Candidates(gen.rows, gen.cols, gen.difficulty)
  /\ pc' = "gen_fallback"
  /\ UNCHANGED <<nash, dominated, game, ieds, iedsResult, rerun, alt, gen,
                 question, ui>>

NextGen == GenAccept \/ GenReject \/ GenRelax \/ GenFallback

SpecGen == InitGen /\ [][NextGen]_vars

(***************************************************************************)
(* C6: a matrix returned from the rejection-sampling loops has no Player A *)
(* tie within a column, no Player B tie within a row, at least one pure    *)
(* Nash equilibrium and, for "easy", a strictly dominated strategy.        *)
(***************************************************************************)
NoTies(m) ==
  /\ \A c \in Rng(m.cols) : \A r1, r2 \in Rng(m.rows) :
       r1 # r2 => m.cells[r1][c].a # m.cells[r2][c].a
  /\ \A r \in Rng(m.rows) : \A c1, c2 \in Rng(m.cols) :
       c1 # c2 => m.cells[r][c1].b # m.cells[r][c2].b

HasStrictlyDominated(m) ==
  \E player \in Players : \E i, j \in Rng(OwnCount(m, player)) :
    i # j /\ StrictlyDominatedBy(m, player, i, j)

C6_AcceptedMatrixIsUseful ==
  pc = "gen_accepted" =>
    /\ NoTies(matrix)
    /\ BestResponseCells(matrix) # {}
    /\ gen.difficulty = "easy" => HasStrictlyDominated(matrix)

\* an easy matrix accepted by the relaxed second loop
C6_Witness ==
  /\ pc = "gen_accepted"
  /\ gen.difficulty = "easy"
  /\ gen.loop = "second"
  /\ HasStrictlyDominated(matrix)

(***************************************************************************)
(* C7: generateMatrix evaluates at most 100 candidates, 200 when the       *)
(* multiple-Nash constraint was drawn, never gets stuck, and when no       *)
(* candidate was accepted returns an untested draw.                        *)
(***************************************************************************)
DrawCap(g) == IF g.wantMultipleNash THEN 2 * MaxAttempts ELSE MaxAttempts

\* m is a rows x cols matrix whose payoffs lie in the range of difficulty
IsMatrixFor(m, rows, cols, difficulty) ==
  /\ DOMAIN m = {"rows", "cols", "cells", "rowLabels", "colLabels"}
  /\ m.rows = rows
  /\ m.cols = cols
  /\ DOMAIN m.cells = Rng(rows)
  /\ \A r \in Rng(rows) :
       /\ DOMAIN m.cells[r] = Rng(cols)
       /\ \A c \in Rng(cols) :
            /\ m.cells[r][c].a \in PayoffRange(difficulty)[1] .. PayoffRange(difficulty)[2]
            /\ m.cells[r][c].b \in PayoffRange(difficulty)[1] .. PayoffRange(difficulty)[2]

C7_GenerationBounded ==
  /\ pc = "gen_loop" =>
       /\ gen.evaluated <= DrawCap(gen)
       /\ gen.attempt < MaxAttempts => gen.evaluated < DrawCap(gen)
       /\ ENABLED NextGen
  /\ pc = "gen_fallback" =>
       /\ gen.evaluated = DrawCap(gen)
       /\ IsMatrixFor(matrix, gen.rows, gen.cols, gen.difficulty)
  /\ pc = "gen_accepted" =>
       IsMatrixFor(matrix, gen.rows, gen.cols, gen.difficulty)

\* the fallback after 200 rejected candidates returns a matrix with a tie
C7_Witness ==
  /\ pc = "gen_fallback"
  /\ gen.wantMultipleNash
  /\ gen.evaluated = 2 * MaxAttempts
  /\ ~NoTies(matrix)

(***************************************************************************)
(* lib/questions.ts.  A string is the sequence of its lexical pieces       *)
(* (labels, numbers, punctuation); + and template literals concatenate.    *)
(* shuffle() can return every permutation, so an operator that shuffles    *)
(* denotes the set of results it can return.                               *)
(***************************************************************************)
\* Array.prototype.join(", ") on an array of strings
RECURSIVE Join(_)
Join(strs) ==
  IF Len(strs) = 0 THEN <<>>
  ELSE IF Len(strs) = 1 THEN strs[1]
  ELSE strs[1] \o <<", ">> \o Join(Tail(strs))

\* String.prototype.includes: sub occurs in str as a run of pieces
StrIncludes(str, sub) ==
  \E k \in 0 .. (Len(str) - Len(sub)) :
    \A n \in 1 .. Len(sub) : str[k + n] = sub[n]

\* Array.prototype.includes
ArrIncludes(arr, x) == \E n \in 1 .. Len(arr) : arr[n] = x

\* Array.prototype.indexOf: 0-based, -1 when absent
indexOf(arr, x) ==
  IF ArrIncludes(arr, x)
    THEN (CHOOSE n \in 1 .. Len(arr) :
            arr[n] = x /\ \A k \in 1 .. (n - 1) : arr[k] # x) - 1
    ELSE 0 - 1

\* the strategy labels in the order of their UTF-16 code units
LabelOrder == <<"Bottom", "Center", "Left", "Middle", "Right", "Top">>

PieceRank(piece) ==
  IF \E k \in 1 .. Len(LabelOrder) : LabelOrder[k] = piece
    THEN CHOOSE k \in 1 .. Len(LabelOrder) : LabelOrder[k] = piece
    ELSE 0

\* s sorts before t in the default sort(): decided by the first piece in
\* which they differ, a proper prefix first
RECURSIVE StrBefore(_, _)
StrBefore(s, t) ==
  IF Len(s) = 0 THEN Len(t) > 0
  ELSE IF Len(t) = 0 THEN FALSE
  ELSE IF s[1] = t[1] THEN StrBefore(Tail(s), Tail(t))
  ELSE PieceRank(s[1]) < PieceRank(t[1])

\* Array.prototype.sort() on strings: insertion of each string in order
RECURSIVE SortStrings(_)
SortStrings(strs) ==
  IF Len(strs) <= 1 THEN strs
  ELSE LET rest == SortStrings(Tail(strs))
           before == SelectSeq(rest, LAMBDA t : ~StrBefore(strs[1], t))
           after == SelectSeq(rest, LAMBDA t : StrBefore(strs[1], t))
       IN  before \o <<strs[1]>> \o after

\* [...new Set(strs)]: the first occurrence of each string, in order
RECURSIVE Dedup(_)
Dedup(strs) ==
  IF Len(strs) = 0 THEN <<>>
  ELSE LET front == Dedup(SubSeq(strs, 1, Len(strs) - 1))
       IN  IF ArrIncludes(front, strs[Len(strs)]) THEN front
           ELSE Append(front, strs[Len(strs)])

\* Number.prototype.toString as one piece
NumText(n) == <<ToString(n)>>

\* formatPayoffs: `(${p.a}, ${p.b})`
formatPayoffs(p) == <<"(">> \o NumText(p.a) \o <<", ">> \o NumText(p.b) \o <<")">>

\* `(${rowLabel}, ${colLabel})`
CellLabel(m, r, c) == <<"(", m.rowLabels[r], ", ", m.colLabels[c], ")">>

\* `${label} (Player ${player})`
StrategyText(label, player) == <<label, " (Player ", player, ")">>

NOTA == <<"None of the Above">>

\* the sequences of k different positions of arr, as their entries: what
\* shuffle(arr).slice(0, k) can return
ShufflePrefix(arr, k) ==
  {[n \in 1 .. k |-> arr[f[n]]] :
     f \in {g \in [1 .. k -> 1 .. Len(arr)] :
              \A i, j \in 1 .. k : g[i] = g[j] => i = j}}

Min2(a, b) == IF a < b THEN a ELSE b

\* the first loop of buildOptions over shuffle(distractors): the correct
\* answer followed by the first (at most three) different entries that are
\* not yet options, in the order the shuffle puts them
PickDistractors(correctAnswer, distractors) ==
  LET fresh == {distractors[n] : n \in 1 .. Len(distractors)} \ {correctAnswer}
      k == Min2(3, Cardinality(fresh))
  IN  {<<correctAnswer>> \o a :
         a \in {g \in [1 .. k -> fresh] :
                  \A i, j \in 1 .. k : g[i] = g[j] => i = j}}

\* one iteration of while (options.length < 4)
PadOnce(options, pool) ==
  {LET option == Join(combo)
   IN  IF ~ArrIncludes(options, option) THEN Append(options, option)
       ELSE Append(options, <<"Option ">> \o NumText(Len(options) + 1)) :
     combo \in ShufflePrefix(pool, Min2(2, Len(pool)))}

RECURSIVE PadToFour(_, _)
PadToFour(options, pool) ==
  IF Len(options) >= 4 THEN {options}
  ELSE UNION {PadToFour(o, pool) : o \in PadOnce(options, pool)}

\* the tail of buildOptions, after the options were filled up to four
FinishOptions(correctAnswer, options) ==
  IF correctAnswer = NOTA
    THEN LET nonNota == SelectSeq(options, LAMBDA o : o # NOTA)
         IN  {Append(shuffled, NOTA) :
                shuffled \in ShufflePrefix(nonNota, Min2(4, Len(nonNota)))}
    ELSE {LET withNota == Append(first4, NOTA)
          IN  IF indexOf(withNota, correctAnswer) = 0 - 1
                THEN [withNota EXCEPT ![1] = correctAnswer]
                ELSE withNota :
            first4 \in ShufflePrefix(SubSeq(options, 1, 4), 4)}

buildOptions(correctAnswer, distractors, pool) ==
  UNION {FinishOptions(correctAnswer, padded) :
           padded \in UNION {PadToFour(picked, pool) :
                               picked \in PickDistractors(correctAnswer, distractors)}}

\* Array.prototype.map
Map(arr, F(_)) == [k \in 1 .. Len(arr) |-> F(arr[k])]

Max2(a, b) == IF a > b THEN a ELSE b

Abs(a) == IF a < 0 THEN 0 - a ELSE a

\* a Question whose correctIndex assumes the correct answer stays first
Question_assumesFirst(category, difficulty, text, options, correctAnswer) ==
  [category |-> category, difficulty |-> difficulty, text |-> text,
   options |-> options, correctIndex |-> 0, correctAnswer |-> correctAnswer]

\* the Question a generator returns, without its id and explanation;
\* correctAnswer is the generator's local of that name
Question(category, difficulty, text, options, correctAnswer) ==
  [category |-> category, difficulty |-> difficulty, text |-> text,
   options |-> options, correctIndex |-> indexOf(options, correctAnswer),
   correctAnswer |-> correctAnswer]

allStrategiesOf(m) ==
  [k \in 1 .. (m.rows + m.cols) |->
     IF k <= m.rows THEN StrategyText(m.rowLabels[k - 1], "A")
     ELSE StrategyText(m.colLabels[k - 1 - m.rows], "B")]

\* the cells listed column by column
allCellsOf_columnMajor(m) ==
  [k \in 1 .. (m.rows * m.cols) |->
     CellLabel(m, (k - 1) % m.rows, (k - 1) \div m.rows)]

allCellsOf(m) ==
  [k \in 1 .. (m.rows * m.cols) |->
     CellLabel(m, RowMajor(m)[k].row, RowMajor(m)[k].col)]

generateDominatedQuestion(m, difficulty) ==
  LET strictlyDominated ==
        SelectSeq(findDominatedStrategies(m), LAMBDA d : d.strict)
      labels ==
        SortStrings(Dedup(Map(strictlyDominated,
          LAMBDA d : StrategyText(d.dominated.label, d.dominated.player))))
      correctAnswer ==
        IF Len(strictlyDominated) = 0 THEN NOTA ELSE Join(labels)
      allStrategies == allStrategiesOf(m)
      distractors ==
        SelectSeq(allStrategies, LAMBDA str : ~StrIncludes(correctAnswer, str))
  IN  {Question("find_dominated_strategies", difficulty,
         <<"Find all strictly dominated strategies in this game.">>,
         options, correctAnswer) :
         options \in buildOptions(correctAnswer, distractors, allStrategies)}

generateIEDSQuestion(m, difficulty) ==
  LET survivors == performIEDS(m).survivingCells
      labels == SortStrings(Map(survivors, LAMBDA sv : CellLabel(m, sv.row, sv.col)))
      correctAnswer == IF Len(survivors) = 0 THEN NOTA ELSE Join(labels)
      allCells == allCellsOf(m)
      distractors ==
        SelectSeq(allCells, LAMBDA cell : ~StrIncludes(correctAnswer, cell))
  IN  {Question("ieds_survivors", difficulty,
         <<"What outcomes survive the iterated elimination of strictly dominated strategies (IEDS)?">>,
         options, correctAnswer) :
         options \in buildOptions(correctAnswer, distractors, allCells)}

generateNashQuestion(m, difficulty) ==
  LET equilibria == findNashEquilibria(m)
      labels ==
        SortStrings(Map(equilibria,
          LAMBDA ne : <<"(", ne.rowLabel, ", ", ne.colLabel, ")">>))
      correctAnswer == IF Len(equilibria) = 0 THEN NOTA ELSE Join(labels)
      allCells == allCellsOf(m)
      distractors ==
        SelectSeq(allCells, LAMBDA cell : ~StrIncludes(correctAnswer, cell))
  IN  {Question("nash_equilibrium", difficulty,
         <<"What is/are the Nash Equilibrium/equilibria of this game?">>,
         options, correctAnswer) :
         options \in buildOptions(correctAnswer, distractors, allCells)}

\* `${rows}x${cols} game: {${rowStr}} vs {${colStr}}`
GameDescription(rows, cols, rowStr, colStr) ==
  NumText(rows) \o <<"x">> \o NumText(cols) \o <<" game: {">> \o rowStr
    \o <<"} vs {">> \o colStr \o <<"}">>

\* labels.join(", ") of the labels at the given indices
JoinLabels(labels, indices) == Join(Map(indices, LAMBDA i : <<labels[i]>>))

ResidualCombos ==
  <<[rows |-> <<0, 1>>, cols |-> <<0, 1>>],
    [rows |-> <<0, 2>>, cols |-> <<0, 2>>],
    [rows |-> <<1, 2>>, cols |-> <<1, 2>>],
    [rows |-> <<0>>, cols |-> <<0, 1, 2>>],
    [rows |-> <<0, 1, 2>>, cols |-> <<0>>]>>

generateResidualGameQuestion(m, difficulty) ==
  LET residual == performIEDS(m).residualMatrix
      correctAnswer ==
        IF residual = NULL \/ (residual.rows = m.rows /\ residual.cols = m.cols)
          THEN <<"The full original game (no strategies eliminated)">>
          ELSE GameDescription(residual.rows, residual.cols,
                 Join(Map(LabelSeq(residual.rowLabels, residual.rows),
                          LAMBDA l : <<l>>)),
                 Join(Map(LabelSeq(residual.colLabels, residual.cols),
                          LAMBDA l : <<l>>)))
      distractors ==
        IF m.rows = 3 /\ m.cols = 3
          THEN SelectSeq(
                 Map(ResidualCombos,
                   LAMBDA combo :
                     GameDescription(Len(combo.rows), Len(combo.cols),
                       JoinLabels(m.rowLabels, combo.rows),
                       JoinLabels(m.colLabels, combo.cols))),
                 LAMBDA desc : desc # correctAnswer)
          ELSE <<GameDescription(1, 1, <<m.rowLabels[0]>>, <<m.colLabels[0]>>),
                 GameDescription(1, 1, <<m.rowLabels[1]>>, <<m.colLabels[1]>>),
                 GameDescription(1, 2, <<m.rowLabels[0]>>,
                   Join(Map(LabelSeq(m.colLabels, m.cols), LAMBDA l : <<l>>))),
                 GameDescription(2, 1,
                   Join(Map(LabelSeq(m.rowLabels, m.rows), LAMBDA l : <<l>>)),
                   <<m.colLabels[0]>>)>>
      filtered == SelectSeq(distractors, LAMBDA d : d # correctAnswer)
  IN  {Question("residual_game", difficulty,
         <<"What is the residual game that remains after iteratively eliminating strictly dominated strategies?">>,
         options, correctAnswer) :
         options \in buildOptions(correctAnswer, filtered, filtered)}

generateCountNashQuestion(m, difficulty) ==
  LET count == Len(findNashEquilibria(m))
      correctAnswer == NumText(count)
      distractors ==
        SelectSeq(<<<<"0">>, <<"1">>, <<"2">>, <<"3">>, <<"4">>>>,
                  LAMBDA d : d # correctAnswer)
  IN  {Question("count_nash", difficulty,
         <<"How many pure-strategy Nash Equilibria exist in this game?">>,
         options, correctAnswer) :
         options \in buildOptions(correctAnswer, distractors, distractors)}

generateSelectAllNashQuestion(m, difficulty) ==
  LET equilibria == findNashEquilibria(m)
      options == Append(allCellsOf(m), <<"No Nash Equilibrium exists">>)
      correctIndices ==
        IF Len(equilibria) = 0 THEN <<Len(options) - 1>>
        ELSE Map(equilibria,
               LAMBDA ne :
                 indexOf(options, <<"(", ne.rowLabel, ", ", ne.colLabel, ")">>))
  IN  {[category |-> "select_all_nash", difficulty |-> difficulty,
        text |-> <<"Select ALL outcomes that are Nash Equilibria in this game.">>,
        options |-> options, correctIndex |-> correctIndices[1],
        correctIndices |-> correctIndices, multiSelect |-> TRUE]}

TrueFalseOptions ==
  <<<<"True">>, <<"False">>,
    <<"Cannot be determined from the given information">>,
    <<"Only true if the game is repeated">>, NOTA>>

\* the statement and its truth for one draw of type, r and c
TrueFalseStatement(m, type, r, c) ==
  IF type = "dominated_claim" /\ m.rows >= 2
    THEN LET otherR == (r + 1) % m.rows
             dominatedList == findDominatedStrategies(m)
         IN  [statement |-> <<"\"", m.rowLabels[r], "\" is strictly dominated by \"",
                              m.rowLabels[otherR], "\" for Player A.">>,
              isTrue |-> \E n \in 1 .. Len(dominatedList) :
                           /\ dominatedList[n].dominated.player = "A"
                           /\ dominatedList[n].dominated.index = r
                           /\ dominatedList[n].by.index = otherR
                           /\ dominatedList[n].strict]
  ELSE IF type = "nash_claim"
    THEN LET equilibria == findNashEquilibria(m)
         IN  [statement |-> CellLabel(m, r, c) \o <<" is a Nash Equilibrium.">>,
              isTrue |-> \E n \in 1 .. Len(equilibria) :
                           equilibria[n].row = r /\ equilibria[n].col = c]
  ELSE [statement |-> <<"At ">> \o CellLabel(m, r, c)
                        \o <<", Player A's payoff is greater than Player B's payoff.">>,
        isTrue |-> m.cells[r][c].a > m.cells[r][c].b]

generateTrueFalseQuestion(m, difficulty) ==
  {LET st == TrueFalseStatement(m, type, r, c)
       correctAnswer == IF st.isTrue THEN <<"True">> ELSE <<"False">>
   IN  Question("true_false", difficulty,
         <<"True or False: ">> \o st.statement, TrueFalseOptions, correctAnswer) :
     type \in {"dominated_claim", "nash_claim", "payoff_comparison"},
     r \in Rng(m.rows), c \in Rng(m.cols)}

\* a scan that checks Player B's best response over every column of the
\* matrix, the prohibited one included
ReducedScan_allColumns(m, remainingCols, cells, k, best, onlyEquilibria) ==
  LET kept == {n \in k .. Len(cells) :
                 onlyEquilibria =>
                   /\ \A r2 \in Rng(m.rows) :
                        ~(m.cells[r2][cells[n].col].a
                            > m.cells[cells[n].row][cells[n].col].a)
                   /\ \A c2 \in Rng(m.cols) :
                        ~(m.cells[cells[n].row][c2].b
                            > m.cells[cells[n].row][cells[n].col].b)}
      values == best \cup {m.cells[cells[n].row][cells[n].col].a : n \in kept}
  IN  {v \in values : \A w \in values : v >= w}

\* the two scans of the reduced game, over r and then c in remainingCols:
\* cells[k] is tried after best; onlyEquilibria is the first scan
RECURSIVE ReducedScan(_, _, _, _, _, _)
ReducedScan(m, remainingCols, cells, k, best, onlyEquilibria) ==
  IF k > Len(cells) THEN best
  ELSE LET r == cells[k].row
           c == cells[k].col
           bestForA == \A r2 \in Rng(m.rows) : ~(m.cells[r2][c].a > m.cells[r][c].a)
           bestForB == \A n \in 1 .. Len(remainingCols) :
                         ~(m.cells[r][remainingCols[n]].b > m.cells[r][c].b)
       IN  ReducedScan(m, remainingCols, cells, k + 1,
             IF (onlyEquilibria => bestForA /\ bestForB)
                /\ Exceeds(m.cells[r][c].a, best)
               THEN {m.cells[r][c].a} ELSE best,
             onlyEquilibria)

\* the text of the values added to distractorValues, in insertion order
WtpDistractorValues(m, wtp) ==
  LET correctAnswer == NumText(wtp)
      deltas == [d \in 1 .. 7 |-> wtp + (d - 4)]
      nearby == SelectSeq(deltas, LAMBDA val : val >= 0 /\ NumText(val) # correctAnswer)
      payoffs == SelectSeq(
                   [k \in 1 .. (m.rows * m.cols) |->
                      Abs(m.cells[RowMajor(m)[k].row][RowMajor(m)[k].col].a)],
                   LAMBDA val : NumText(val) # correctAnswer)
  IN  Dedup(Map(nearby \o payoffs, NumText))

\* buildOptions returns the same set of results for every order of its
\* distractors and pool, so shuffle([...distractorValues]) is left in
\* insertion order
generateWillingnessToPayQuestion(m, difficulty) ==
  LET equilibria == findNashEquilibria(m)
      allCols == [k \in 1 .. m.cols |-> k - 1]
  IN  IF Len(equilibria) = 0 THEN generateNashQuestion(m, difficulty)
      ELSE LET ne == equilibria[1]
               otherCols == SelectSeq(allCols, LAMBDA c : c # ne.col)
           IN  IF Len(otherCols) = 0 THEN generateNashQuestion(m, difficulty)
               ELSE UNION {
                 LET remainingCols == SelectSeq(allCols, LAMBDA c : c # prohibitCol)
                     cells == [k \in 1 .. (m.rows * Len(remainingCols)) |->
                                 [row |-> (k - 1) \div Len(remainingCols),
                                  col |-> remainingCols[((k - 1) % Len(remainingCols)) + 1]]]
                     fromEquilibria ==
                       ReducedScan(m, remainingCols, cells, 1, NegInfinity, TRUE)
                     bestPayoffAReduced ==
                       IF fromEquilibria = NegInfinity
                         THEN ReducedScan(m, remainingCols, cells, 1, NegInfinity, FALSE)
                         ELSE fromEquilibria
                     wtp == Max2(0, (CHOOSE v \in bestPayoffAReduced : TRUE) - ne.payoffs.a)
                     correctAnswer == NumText(wtp)
                     distractors == WtpDistractorValues(m, wtp)
                 IN  IF Len(remainingCols) = 0 THEN generateNashQuestion(m, difficulty)
                     ELSE {Question("willingness_to_pay", difficulty,
                             <<"What is the highest amount Player A would be willing to pay to prohibit Player B from choosing \"",
                               m.colLabels[prohibitCol], "\"?">>,
                             options, correctAnswer) :
                             options \in buildOptions(correctAnswer, distractors, distractors)} :
                 prohibitCol \in {ne.col, otherCols[1]}}

\* `(${rowLabel}, ${colLabel}) with payoffs ${formatPayoffs(cell)}`
OutcomeText(m, r, c) ==
  CellLabel(m, r, c) \o <<" with payoffs ">> \o formatPayoffs(m.cells[r][c])

allOutcomesOf(m) ==
  [k \in 1 .. (m.rows * m.cols) |->
     OutcomeText(m, RowMajor(m)[k].row, RowMajor(m)[k].col)]

\* a choice that reuses any supplied game, whoever moves first in it
GameFor_reusesAny(m, sequentialGame, firstMover) ==
  IF sequentialGame # NULL
    THEN sequentialGame
    ELSE buildSequentialGame(m, firstMover)

\* sequentialGame && sequentialGame.firstMover === firstMover
\*   ? sequentialGame : buildSequentialGame(matrix, firstMover)
GameFor(m, sequentialGame, firstMover) ==
  IF sequentialGame # NULL /\ sequentialGame.firstMover = firstMover
    THEN sequentialGame
    ELSE buildSequentialGame(m, firstMover)

\* the body shared by the first-mover and second-mover generators
SequentialOutcomeQuestion(m, difficulty, sequentialGame, firstMover, category, text) ==
  LET g == GameFor(m, sequentialGame, firstMover)
      correctAnswer == OutcomeText(m, g.backwardInductionOutcome.row,
                                      g.backwardInductionOutcome.col)
      allOutcomes == allOutcomesOf(m)
      distractors == SelectSeq(allOutcomes, LAMBDA o : o # correctAnswer)
  IN  {Question(category, difficulty, text, options, correctAnswer) :
         options \in buildOptions(correctAnswer, distractors, allOutcomes)}

generateSequentialFirstMoverQuestion(m, difficulty, sequentialGame) ==
  SequentialOutcomeQuestion(m, difficulty, sequentialGame, "A",
    "sequential_first_mover",
    <<"Suppose Player A has a head start and can make the first move. Using backward induction, what is the equilibrium outcome?">>)

generateSequentialSecondMoverQuestion(m, difficulty, sequentialGame) ==
  SequentialOutcomeQuestion(m, difficulty, sequentialGame, "B",
    "sequential_second_mover",
    <<"What will be the outcome if Player B has the head start and can make the first move? Use backward induction.">>)

generateSequentialBestResponseQuestion(m, difficulty, sequentialGame) ==
  UNION {
    LET firstMover == OtherPlayer(askAbout)
        g == GameFor(m, sequentialGame, firstMover)
        correctAnswer == <<g.backwardInductionPath[2]>>
        askAboutStrategies == Map(StrategiesOf(m, askAbout), LAMBDA l : <<l>>)
        distractors == SelectSeq(askAboutStrategies, LAMBDA str : str # correctAnswer)
    IN  {LET options == IF Len(shuffledOptions) < 4
                          THEN Append(shuffledOptions, NOTA)
                          ELSE shuffledOptions
         IN  Question("sequential_best_response", difficulty,
               <<"If Player ", firstMover, " moves first, what move should Player ",
                 askAbout, " make in response using backward induction?">>,
               options, correctAnswer) :
           shuffledOptions \in UNION {
             ShufflePrefix(<<correctAnswer>> \o firstThree, 1 + Len(firstThree)) :
               firstThree \in ShufflePrefix(distractors, Min2(3, Len(distractors)))}} :
    askAbout \in {"A", "B"}}

\* a loop that never replaces bestOffer
BestOfferFrom_keepsFirst(offers, k, bestOffer) == bestOffer

\* the offer kept by the loop that replaces bestOffer on a strictly
\* greater profit
RECURSIVE BestOfferFrom(_, _, _)
BestOfferFrom(offers, k, bestOffer) ==
  IF k > Len(offers) THEN bestOffer
  ELSE BestOfferFrom(offers, k + 1,
         IF offers[k].profit > bestOffer.profit THEN offers[k] ELSE bestOffer)

\* matrix.cells[game.backwardInductionOutcome.row][game.backwardInductionOutcome.col]
OutcomeCell(m, g) ==
  m.cells[g.backwardInductionOutcome.row][g.backwardInductionOutcome.col]

\* the offers array for the two gains from moving first
OffersFor(gainA, gainB) ==
  LET offers ==
        <<[description |-> <<"Help Player A move first, charging ">>
                             \o NumText(Max2(0, gainA)),
           profit |-> Max2(0, gainA)],
          [description |-> <<"Help Player B move first, charging ">>
                             \o NumText(Max2(0, gainB)),
           profit |-> Max2(0, gainB)],
          [description |-> <<"Help neither player (profit = 0)">>, profit |-> 0]>>
      fakeProfit == Max2(0, Abs(gainA - gainB))
  IN  IF fakeProfit # Max2(0, gainA) /\ fakeProfit # Max2(0, gainB)
        THEN Append(offers,
               [description |-> <<"Help both players simultaneously, charging ">>
                                  \o NumText(fakeProfit),
                profit |-> fakeProfit])
        ELSE offers

\* gainA and gainB from the outcomes of the two sequential games and the
\* first simultaneous equilibrium
GainsFor(outcomeA, outcomeB, equilibria) ==
  [a |-> outcomeA.a - (IF Len(equilibria) > 0 THEN equilibria[1].payoffs.a ELSE 0),
   b |-> outcomeB.b - (IF Len(equilibria) > 0 THEN equilibria[1].payoffs.b ELSE 0)]

ConsultingGains(m) ==
  GainsFor(OutcomeCell(m, buildSequentialGame(m, "A")),
           OutcomeCell(m, buildSequentialGame(m, "B")),
           findNashEquilibria(m))

OffersFromGains(gains) == OffersFor(gains.a, gains.b)

ConsultingOffers(m) == OffersFromGains(ConsultingGains(m))

\* the question built from the offers and the best of them
ConsultingQuestion(difficulty, offers, correctAnswer) ==
  LET distractors ==
        Map(SelectSeq(offers, LAMBDA o : o.description # correctAnswer),
            LAMBDA o : o.description)
  IN  {Question("consulting_offer", difficulty,
         <<"Which offer delivers the highest profit for you?">>,
         options, correctAnswer) :
         options \in buildOptions(correctAnswer, distractors, distractors)}

BestOffer(offers) == BestOfferFrom(offers, 1, offers[1])

ConsultingQuestionFor(difficulty, offers) ==
  ConsultingQuestion(difficulty, offers, BestOffer(offers).description)

generateConsultingOfferQuestion(m, difficulty, sequentialGame) ==
  ConsultingQuestionFor(difficulty, ConsultingOffers(m))

EASY_CATEGORIES ==
  <<"find_dominated_strategies", "ieds_survivors", "nash_equilibrium",
    "residual_game", "count_nash">>

MEDIUM_CATEGORIES ==
  EASY_CATEGORIES \o <<"select_all_nash", "true_false", "willingness_to_pay">>

HARD_CATEGORIES ==
  <<"sequential_first_mover", "sequential_first_mover",
    "sequential_second_mover", "sequential_second_mover",
    "sequential_best_response", "consulting_offer">>

getCategoriesForDifficulty(difficulty) ==
  IF difficulty = "easy" THEN EASY_CATEGORIES
  ELSE IF difficulty = "medium" THEN MEDIUM_CATEGORIES
  ELSE HARD_CATEGORIES

generateQuestionForCategory(m, category, difficulty, sequentialGame) ==
  CASE category = "find_dominated_strategies" -> generateDominatedQuestion(m, difficulty)
    [] category = "ieds_survivors" -> generateIEDSQuestion(m, difficulty)
    [] category = "nash_equilibrium" -> generateNashQuestion(m, difficulty)
    [] category = "select_all_nash" -> generateSelectAllNashQuestion(m, difficulty)
    [] category = "residual_game" -> generateResidualGameQuestion(m, difficulty)
    [] category = "count_nash" -> generateCountNashQuestion(m, difficulty)
    [] category = "true_false" -> generateTrueFalseQuestion(m, difficulty)
    [] category = "willingness_to_pay" -> generateWillingnessToPayQuestion(m, difficulty)
    [] category = "sequential_first_mover" ->
         generateSequentialFirstMoverQuestion(m, difficulty, sequentialGame)
    [] category = "sequential_second_mover" ->
         generateSequentialSecondMoverQuestion(m, difficulty, sequentialGame)
    [] category = "sequential_best_response" ->
         generateSequentialBestResponseQuestion(m, difficulty, sequentialGame)
    [] category = "consulting_offer" ->
         generateConsultingOfferQuestion(m, difficulty, sequentialGame)
    [] OTHER -> generateNashQuestion(m, difficulty)

\* the questions generateQuestion can return
generateQuestion(m, difficulty, sequentialGame) ==
  LET categories == getCategoriesForDifficulty(difficulty)
  IN  UNION {generateQuestionForCategory(m, categories[n], difficulty, sequentialGame) :
               n \in 1 .. Len(categories)}

(***************************************************************************)
(* generateQuestion called once on a game: gen holds the difficulty the    *)
(* game was created with, game the sequential game handed to the call.     *)
(***************************************************************************)
\* every 2x2 matrix without ties whose payoffs are ranks
RankMatrices2 ==
  {PayoffMatrix(2, 2,
     [r \in Rng(2) |-> [c \in Rng(2) |-> [a |-> pa[c][r], b |-> pb[r][c]]]]) :
       pa \in [Rng(2) -> Perms(2)], pb \in [Rng(2) -> Perms(2)]}

\* a 2x2 matrix extended to 3x3 without ties: the new row Bottom gives
\* Player A less than the other rows do, the new column Right gives
\* Player B less than the other columns do
Extend3(m) ==
  PayoffMatrix(3, 3,
    [r \in Rng(3) |-> [c \in Rng(3) |->
       [a |-> IF r = 2 THEN 0 ELSE IF c = 2 THEN r + 1 ELSE m.cells[r][c].a + 1,
        b |-> IF c = 2 THEN 0 ELSE IF r = 2 THEN c + 1 ELSE m.cells[r][c].b + 1]]])

SampleMatrices3 == {Extend3(m) : m \in RankMatrices2}

\* a 3x3 matrix without ties: (Top, Left) is its first equilibrium, Bottom
\* is strictly dominated by Top, and its columns Center and Right, taken
\* alone, leave no cell that is a best response for both players
CyclicMatrix3 ==
  LET pa == <<<<3, 5, 2>>, <<2, 1, 4>>, <<0, 0, 1>>>>
      pb == <<<<2, 0, 1>>, <<0, 2, 1>>, <<1, 2, 0>>>>
  IN  PayoffMatrix(3, 3,
        [r \in Rng(3) |-> [c \in Rng(3) |->
           [a |-> pa[r + 1][c + 1], b |-> pb[r + 1][c + 1]]]])

\* a 2x2 matrix without ties with two equilibria, (Top, Left) paying
\* (2, 1) and (Bottom, Right) paying (1, 2)
CoordinationMatrix2 ==
  LET pa == <<<<2, 0>>, <<0, 1>>>>
      pb == <<<<1, 0>>, <<0, 2>>>>
  IN  PayoffMatrix(2, 2,
        [r \in Rng(2) |-> [c \in Rng(2) |->
           [a |-> pa[r + 1][c + 1], b |-> pb[r + 1][c + 1]]]])

\* a 2x2 matrix the fallback of generateMatrix can return: Player B is
\* tied in row Top, (Top, Right) paying (2, 1) is the first equilibrium,
\* and Player A moving first ends in (Bottom, Left) paying (1, 1)
TiedMatrix2 ==
  LET pa == <<<<0, 2>>, <<1, 0>>>>
      pb == <<<<1, 1>>, <<1, 0>>>>
  IN  PayoffMatrix(2, 2,
        [r \in Rng(2) |-> [c \in Rng(2) |->
           [a |-> pa[r + 1][c + 1], b |-> pb[r + 1][c + 1]]]])

QuestionMatrices ==
  RankMatrices2 \cup SampleMatrices3
    \cup {CyclicMatrix3, CoordinationMatrix2, TiedMatrix2}

InitQ ==
  /\ matrix \in QuestionMatrices
  /\ gen \in [difficulty : Difficulties]
  /\ game \in IF gen.difficulty = "hard"
                THEN {NULL} \cup {buildSequentialGame(matrix, p) : p \in Players}
                ELSE {NULL}
  /\ pc = "question_idle"
  /\ question = NULL
  /\ ui = NULL
  /\ nash = <<>>
  /\ dominated = <<>>
  /\ ieds = NULL
  /\ iedsResult = NULL
  /\ rerun = NULL
  /\ alt = NULL

\* generateQuestion: the category it draws is kept in gen
GenerateQuestion ==
  /\ pc = "question_idle"
  /\ \E n \in 1 .. Len(getCategoriesForDifficulty(gen.difficulty)) :
       LET category == getCategoriesForDifficulty(gen.difficulty)[n]
       IN  /\ question' \in generateQuestionForCategory(matrix, category,
                                                        gen.difficulty, game)
           /\ gen' = [difficulty |-> gen.difficulty, category |-> category]
  /\ pc' = "question_ready"
  /\ UNCHANGED <<matrix, nash, dominated, game, ieds, iedsResult, rerun, alt, ui>>

NextQ == GenerateQuestion

SpecQ == InitQ /\ [][NextQ]_vars

(***************************************************************************)
(* hooks/useGameState: gameReducer.  matrix, game and question hold the    *)
(* GameState fields matrix, sequentialGame and question; ui holds the      *)
(* other fields.  A field of type T | null is the set of its non-null      *)
(* values: {} is null, {v} is v.                                           *)
(***************************************************************************)
\* the number of submissions followed in one run
MaxTotal == 2

createFreshElimination ==
  [eliminatedRows |-> <<>>, eliminatedCols |-> <<>>, circledPayoffs |-> <<>>]

createFreshTreeState ==
  [highlightedEdges |-> <<>>, leafPayoffs |-> [id \in {} |-> NULL]]

\* a matrix generateMatrix accepts for the difficulty (for medium, one
\* accepted with wantMultipleNash drawn)
SampleMatrix ==
  [d \in Difficulties |->
     CHOOSE m \in UsefulCandidates[d][d = "medium"][2] : TRUE]

\* two of the categories generateQuestion draws from, per difficulty
SampleCategories(difficulty) ==
  {c \in {"find_dominated_strategies", "nash_equilibrium", "select_all_nash",
          "sequential_first_mover", "consulting_offer"} :
     /\ ArrIncludes(getCategoriesForDifficulty(difficulty), c)
     /\ difficulty = "medium" => c \in {"nash_equilibrium", "select_all_nash"}}

\* one question of each sampled category
SampleQuestions(m, difficulty, sequentialGame) ==
  {CHOOSE q \in generateQuestionForCategory(m, c, difficulty, sequentialGame) :
     TRUE : c \in SampleCategories(difficulty)}

\* the games createNewGame can return, without their fresh markings
createNewGame ==
  [difficulty \in Difficulties |->
     UNION {{[matrix |-> SampleMatrix[difficulty], sequentialGame |-> g,
              question |-> q] :
               q \in SampleQuestions(SampleMatrix[difficulty], difficulty, g)} :
            g \in IF difficulty = "hard"
                    THEN {buildSequentialGame(SampleMatrix[difficulty], p) :
                            p \in Players}
                    ELSE {NULL}}]

\* the fields of a new game that ui holds
FreshUi(difficulty, score) ==
  [difficulty |-> difficulty,
   elimination |-> createFreshElimination,
   treeState |-> createFreshTreeState,
   selectedAnswer |-> {}, selectedAnswers |-> <<>>,
   isSubmitted |-> FALSE, isCorrect |-> {}, score |-> score]

\* createInitialState
InitUI ==
  /\ \E g \in createNewGame["easy"] :
       /\ matrix = g.matrix
       /\ game = g.sequentialGame
       /\ question = g.question
  /\ ui = FreshUi("easy", [correct |-> 0, total |-> 0])
  /\ pc = "ui"
  /\ nash = <<>>
  /\ dominated = <<>>
  /\ ieds = NULL
  /\ iedsResult = NULL
  /\ rerun = NULL
  /\ alt = NULL
  /\ gen = NULL

\* the engine variables the reducer has no part in
UiFrame == UNCHANGED <<pc, nash, dominated, ieds, iedsResult, rerun, alt, gen>>

\* case "NEW_GAME"
NEW_GAME ==
  /\ \E g \in createNewGame[ui.difficulty] :
       /\ matrix' = g.matrix
       /\ game' = g.sequentialGame
       /\ question' = g.question
  /\ ui' = FreshUi(ui.difficulty, ui.score)
  /\ UiFrame

\* case "SET_DIFFICULTY"
SET_DIFFICULTY ==
  /\ \E difficulty \in Difficulties :
       /\ \E g \in createNewGame[difficulty] :
            /\ matrix' = g.matrix
            /\ game' = g.sequentialGame
            /\ question' = g.question
       /\ ui' = FreshUi(difficulty, [correct |-> 0, total |-> 0])
  /\ UiFrame

\* state.question.multiSelect && state.question.correctIndices
IsMultiSelect(q) ==
  /\ "multiSelect" \in DOMAIN q
  /\ q.multiSelect
  /\ "correctIndices" \in DOMAIN q

\* the option indices clicked: the correct ones and the lowest other one
AnswerInputs(q) ==
  LET correct == IF IsMultiSelect(q)
                   THEN {q.correctIndices[n] : n \in 1 .. Len(q.correctIndices)}
                   ELSE {q.correctIndex}
      others == (0 .. (Len(q.options) - 1)) \ correct
  IN  correct \cup {i \in others : \A j \in others : i <= j}

\* case "SELECT_ANSWER"
SELECT_ANSWER ==
  /\ \E index \in AnswerInputs(question) :
       IF ui.isSubmitted THEN UNCHANGED ui
       ELSE ui' = [ui EXCEPT !.selectedAnswer = {index}]
  /\ UNCHANGED <<matrix, game, question>>
  /\ UiFrame

\* already ? arr.filter((i) => i !== x) : [...arr, x]
ToggleIn(arr, x) ==
  IF ArrIncludes(arr, x) THEN SelectSeq(arr, LAMBDA i : i # x)
  ELSE Append(arr, x)

\* case "TOGGLE_ANSWER"
TOGGLE_ANSWER ==
  /\ \E index \in AnswerInputs(question) :
       IF ui.isSubmitted THEN UNCHANGED ui
       ELSE LET newSelected == ToggleIn(ui.selectedAnswers, index)
            IN  ui' = [ui EXCEPT
                         !.selectedAnswers = newSelected,
                         !.selectedAnswer =
                           IF Len(newSelected) > 0 THEN {newSelected[1]} ELSE {}]
  /\ UNCHANGED <<matrix, game, question>>
  /\ UiFrame

\* a comparison of the two arrays element by element
SetsMatch_inOrder(correctIndices, selectedAnswers) ==
  correctIndices = selectedAnswers

\* the comparison of new Set(correctIndices) with new Set(selectedAnswers)
SetsMatch(correctIndices, selectedAnswers) ==
  LET correctSet == {correctIndices[n] : n \in 1 .. Len(correctIndices)}
      selectedSet == {selectedAnswers[n] : n \in 1 .. Len(selectedAnswers)}
  IN  /\ Cardinality(correctSet) = Cardinality(selectedSet)
      /\ \A i \in correctSet : i \in selectedSet

\* the state returned by a submission that counts
Submitted(u, isCorrect) ==
  [u EXCEPT !.isSubmitted = TRUE,
            !.isCorrect = {isCorrect},
            !.score = [correct |-> u.score.correct + (IF isCorrect THEN 1 ELSE 0),
                       total |-> u.score.total + 1]]

\* a submission that counts again after the answer was submitted
SUBMIT_ANSWER_countsAgain ==
  /\ ui.score.total < MaxTotal
  /\ IF ui.selectedAnswer = {} THEN UNCHANGED ui
     ELSE ui' = Submitted(ui, ui.selectedAnswer = {question.correctIndex})
  /\ UNCHANGED <<matrix, game, question>>
  /\ UiFrame

\* case "SUBMIT_ANSWER"; the run follows MaxTotal submissions
SUBMIT_ANSWER ==
  /\ ui.score.total < MaxTotal
  /\ IF ui.isSubmitted THEN UNCHANGED ui
     ELSE IF IsMultiSelect(question)
       THEN IF Len(ui.selectedAnswers) = 0 THEN UNCHANGED ui
            ELSE ui' = Submitted(ui, SetsMatch(question.correctIndices,
                                               ui.selectedAnswers))
     ELSE IF ui.selectedAnswer = {} THEN UNCHANGED ui
     ELSE ui' = Submitted(ui, ui.selectedAnswer = {question.correctIndex})
  /\ UNCHANGED <<matrix, game, question>>
  /\ UiFrame

\* the rows, columns, payoffs, edges, leaves and leaf payoffs clicked
RowInputs == {0}

ColInputs == {0}

CircleInputs == {[coord |-> [row |-> 0, col |-> 0], player |-> "A"]}

EdgeInputs == {[parentId |-> <<"root">>, edgeLabel |-> "Top"]}

LeafInputs == {LeafId(0, 0)}

LeafPayoffInputs == {[a |-> 0, b |-> 0], [a |-> 1, b |-> 1]}

\* case "TOGGLE_ELIMINATE_ROW"
TOGGLE_ELIMINATE_ROW ==
  /\ \E row \in RowInputs :
       ui' = [ui EXCEPT !.elimination.eliminatedRows = ToggleIn(@, row)]
  /\ UNCHANGED <<matrix, game, question>>
  /\ UiFrame

\* case "TOGGLE_ELIMINATE_COL"
TOGGLE_ELIMINATE_COL ==
  /\ \E col \in ColInputs :
       ui' = [ui EXCEPT !.elimination.eliminatedCols = ToggleIn(@, col)]
  /\ UNCHANGED <<matrix, game, question>>
  /\ UiFrame

\* Array.prototype.findIndex, 1-based, 0 when absent
findIndex(arr, x) ==
  IF ArrIncludes(arr, x)
    THEN CHOOSE n \in 1 .. Len(arr) :
           arr[n] = x /\ \A k \in 1 .. (n - 1) : arr[k] # x
    ELSE 0

\* existing >= 0 ? arr.filter((_, i) => i !== existing) : [...arr, x]
ToggleAt(arr, x) ==
  LET existing == findIndex(arr, x)
  IN  IF existing > 0
        THEN [k \in 1 .. (Len(arr) - 1) |->
                IF k < existing THEN arr[k] ELSE arr[k + 1]]
        ELSE Append(arr, x)

\* case "TOGGLE_CIRCLE_PAYOFF"
TOGGLE_CIRCLE_PAYOFF ==
  /\ \E cp \in CircleInputs :
       ui' = [ui EXCEPT !.elimination.circledPayoffs = ToggleAt(@, cp)]
  /\ UNCHANGED <<matrix, game, question>>
  /\ UiFrame

\* a reset that also clears the selection
RESET_MARKINGS_clearsSelection ==
  /\ ui' = [ui EXCEPT !.elimination = createFreshElimination,
                      !.selectedAnswer = {}, !.selectedAnswers = <<>>]
  /\ UNCHANGED <<matrix, game, question>>
  /\ UiFrame

\* case "RESET_MARKINGS"
RESET_MARKINGS ==
  /\ ui' = [ui EXCEPT !.elimination = createFreshElimination]
  /\ UNCHANGED <<matrix, game, question>>
  /\ UiFrame

\* a case that rebuilds the game in every difficulty
SET_FIRST_MOVER_anyDifficulty ==
  /\ UNCHANGED <<matrix, question>>
  /\ \E player \in Players :
       /\ ui' = [ui EXCEPT !.treeState = createFreshTreeState]
       /\ game' = buildSequentialGame(matrix, player)
  /\ UiFrame

\* case "SET_FIRST_MOVER"
SET_FIRST_MOVER ==
  /\ UNCHANGED <<matrix, question>>
  /\ \E player \in Players :
       IF ui.difficulty # "hard" THEN UNCHANGED <<game, ui>>
       ELSE /\ ui' = [ui EXCEPT !.treeState = createFreshTreeState]
            /\ game' = buildSequentialGame(matrix, player)
  /\ UiFrame

\* case "TOGGLE_TREE_EDGE"
TOGGLE_TREE_EDGE ==
  /\ \E e \in EdgeInputs :
       ui' = [ui EXCEPT !.treeState.highlightedEdges = ToggleAt(@, e)]
  /\ UNCHANGED <<matrix, game, question>>
  /\ UiFrame

\* { ...leafPayoffs, [leafId]: payoffs }
WithLeaf(leafPayoffs, leafId, payoffs) ==
  [id \in DOMAIN leafPayoffs \cup {leafId} |->
     IF id = leafId THEN payoffs ELSE leafPayoffs[id]]

\* const { [leafId]: _, ...rest } = leafPayoffs
WithoutLeaf(leafPayoffs, leafId) ==
  [id \in DOMAIN leafPayoffs \ {leafId} |-> leafPayoffs[id]]

\* case "ASSIGN_LEAF_PAYOFF"
ASSIGN_LEAF_PAYOFF ==
  /\ \E leafId \in LeafInputs, payoffs \in LeafPayoffInputs :
       ui' = [ui EXCEPT !.treeState.leafPayoffs = WithLeaf(@, leafId, payoffs)]
  /\ UNCHANGED <<matrix, game, question>>
  /\ UiFrame

\* case "CLEAR_LEAF_PAYOFF"
CLEAR_LEAF_PAYOFF ==
  /\ \E leafId \in LeafInputs :
       ui' = [ui EXCEPT !.treeState.leafPayoffs = WithoutLeaf(@, leafId)]
  /\ UNCHANGED <<matrix, game, question>>
  /\ UiFrame

\* case "RESET_TREE"
RESET_TREE ==
  /\ ui' = [ui EXCEPT !.treeState = createFreshTreeState]
  /\ UNCHANGED <<matrix, game, question>>
  /\ UiFrame

NextUI ==
  \/ NEW_GAME
  \/ SET_DIFFICULTY
  \/ SELECT_ANSWER
  \/ TOGGLE_ANSWER
  \/ SUBMIT_ANSWER
  \/ TOGGLE_ELIMINATE_ROW
  \/ TOGGLE_ELIMINATE_COL
  \/ TOGGLE_CIRCLE_PAYOFF
  \/ RESET_MARKINGS
  \/ SET_FIRST_MOVER
  \/ TOGGLE_TREE_EDGE
  \/ ASSIGN_LEAF_PAYOFF
  \/ CLEAR_LEAF_PAYOFF
  \/ RESET_TREE

SpecUI == InitUI /\ [][NextUI]_vars

(***************************************************************************)
(* C8: every single-select question has exactly 5 options, also when the   *)
(* correct answer is "None of the Above" and for the                       *)
(* sequential_best_response category.  The code does not do this: with    *)
(* "None of the Above" as the correct answer buildOptions returns 4        *)
(* options, and sequential_best_response returns 3 options on a 2x2        *)
(* matrix and 4 on a 3x3 matrix.                                           *)
(***************************************************************************)
IsSingleSelect(q) == ~("multiSelect" \in DOMAIN q /\ q.multiSelect)

C8_SingleSelectHasFiveOptions ==
  (pc = "question_ready" /\ IsSingleSelect(question))
    => Len(question.options) = 5

(***************************************************************************)
(* C9: correctIndex, and every index in correctIndices of a multi-select   *)
(* question, is a valid index into options whatever the shuffles return;   *)
(* the option at correctIndex is the correct answer the generator          *)
(* computed, and correctIndex is never -1.                                 *)
(***************************************************************************)
ValidIndex(q, i) == i \in 0 .. (Len(q.options) - 1)

\* the labels of the cells that are Nash equilibria by the best-response test
EquilibriumLabels(m) ==
  {CellLabel(m, cell[1], cell[2]) : cell \in BestResponseCells(m)}

C9_CorrectIndexTracksAnswer ==
  pc = "question_ready" =>
    /\ question.correctIndex # 0 - 1
    /\ ValidIndex(question, question.correctIndex)
    /\ IsSingleSelect(question) =>
         question.options[question.correctIndex + 1] = question.correctAnswer
    /\ ~IsSingleSelect(question) =>
         /\ \A n \in 1 .. Len(question.correctIndices) :
              ValidIndex(question, question.correctIndices[n])
         /\ question.correctIndex = question.correctIndices[1]
         /\ {question.options[question.correctIndices[n] + 1] :
               n \in 1 .. Len(question.correctIndices)}
              = IF EquilibriumLabels(matrix) = {}
                  THEN {<<"No Nash Equilibrium exists">>}
                  ELSE EquilibriumLabels(matrix)

\* a question that needed a padded option and whose final shuffle moved
\* the correct answer to the fourth place
C9_Witness ==
  /\ pc = "question_ready"
  /\ IsSingleSelect(question)
  /\ question.correctIndex = 3
  /\ question.correctAnswer # NOTA
  /\ \E n \in 1 .. Len(question.options) :
       question.options[n][1] = "Option "

(***************************************************************************)
(* C11: in a 2x2 matrix whose row Top gives Player A strictly more than    *)
(* row Bottom in both columns, findDominatedStrategies reports Bottom      *)
(* dominated by Top with strict = true and the first step of performIEDS   *)
(* eliminates Bottom, which leaves a 1x2 game.  The loop then goes on:     *)
(* the residualMatrix that performIEDS returns has the single row Top,     *)
(* and has two columns only when Player B's two payoffs in row Top are     *)
(* equal; otherwise B's worse column is eliminated too and it is 1x1.      *)
(***************************************************************************)
TopBeatsBottom(m) ==
  /\ m.rows = 2
  /\ m.cols = 2
  /\ \A c \in Rng(2) : m.cells[0][c].a > m.cells[1][c].a

ReportsBottomByTop(results) ==
  \E n \in 1 .. Len(results) :
    /\ results[n].dominated = [player |-> "A", index |-> 1, label |-> "Bottom"]
    /\ results[n].by = [player |-> "A", index |-> 0, label |-> "Top"]
    /\ results[n].strict = TRUE

C11_TopBeatsBottomScenario ==
  (ieds # NULL /\ TopBeatsBottom(matrix)) =>
    /\ ReportsBottomByTop(findDominatedStrategies(matrix))
    /\ Len(ieds.steps) = 0 => (pc = "ieds_loop" /\ ieds.changed)
    /\ Len(ieds.steps) >= 1 =>
         ieds.steps[1].eliminated = [player |-> "A", index |-> 1, label |-> "Bottom"]
    /\ Len(ieds.steps) = 1 =>
         (ieds.activeRows = <<0>> /\ ieds.activeCols = <<0, 1>>)
    /\ iedsResult # NULL =>
         /\ iedsResult.residualMatrix # NULL
         /\ iedsResult.residualMatrix.rows = 1
         /\ iedsResult.residualMatrix.rowLabels[0] = "Top"
         /\ iedsResult.residualMatrix.cols =
              IF matrix.cells[0][0].b = matrix.cells[0][1].b THEN 2 ELSE 1

\* performIEDS has returned a 1x1 residual for such a matrix
C11_Witness ==
  /\ TopBeatsBottom(matrix)
  /\ iedsResult # NULL
  /\ Len(ieds.steps) = 2
  /\ iedsResult.residualMatrix.rows = 1
  /\ iedsResult.residualMatrix.cols = 1

\* the statement with the 1x2 game as the residual matrix of performIEDS
C11_ResidualIsOneByTwo ==
  (iedsResult # NULL /\ TopBeatsBottom(matrix)) =>
    /\ ReportsBottomByTop(findDominatedStrategies(matrix))
    /\ ieds.steps[1].eliminated = [player |-> "A", index |-> 1, label |-> "Bottom"]
    /\ iedsResult.residualMatrix.rows = 1
    /\ iedsResult.residualMatrix.cols = 2

(***************************************************************************)
(* C12: a matrix returned by generateMatrix, from a loop or from the       *)
(* fallback, has rows x cols cells, payoffs of both players within [0, 9]  *)
(* for "easy" and [-5, 15] for "medium" and "hard", and the labels         *)
(* Top/Bottom and Left/Right for 2 strategies, Top/Middle/Bottom and       *)
(* Left/Center/Right for 3.                                                *)
(***************************************************************************)
Returned == pc \in {"gen_accepted", "gen_fallback"}

InRange(v, difficulty) ==
  IF difficulty = "easy" THEN 0 <= v /\ v <= 9 ELSE 0 - 5 <= v /\ v <= 15

LabelsFor(names, n) ==
  IF n = 2 THEN (0 :> names[1] @@ 1 :> names[3])
  ELSE (0 :> names[1] @@ 1 :> names[2] @@ 2 :> names[3])

C12_ReturnedMatrixShape ==
  Returned =>
    /\ matrix.rows = gen.rows
    /\ matrix.cols = gen.cols
    /\ DOMAIN matrix.cells = 0 .. (gen.rows - 1)
    /\ \A r \in DOMAIN matrix.cells :
         /\ DOMAIN matrix.cells[r] = 0 .. (gen.cols - 1)
         /\ \A c \in DOMAIN matrix.cells[r] :
              /\ InRange(matrix.cells[r][c].a, gen.difficulty)
              /\ InRange(matrix.cells[r][c].b, gen.difficulty)
    /\ matrix.rowLabels = LabelsFor(<<"Top", "Middle", "Bottom">>, gen.rows)
    /\ matrix.colLabels = LabelsFor(<<"Left", "Center", "Right">>, gen.cols)

\* a 3x3 medium matrix from the fallback that holds both ends of its range
C12_Witness ==
  /\ pc = "gen_fallback"
  /\ gen.difficulty = "medium"
  /\ matrix.rows = 3
  /\ matrix.cells[0][0].a = 0 - 5
  /\ matrix.cells[2][2].b = 15

(***************************************************************************)
(* C13: the tree of buildSequentialGame has depth 2.  The root belongs to  *)
(* the first mover and has one edge per first-mover strategy in index      *)
(* order; each leads to a node of the other player with one edge per       *)
(* second-mover strategy in index order; each of those leads to a leaf     *)
(* with id leaf-{row}-{col} and the payoffs of matrix.cells[row][col],     *)
(* (row, col) being (first, second) when A moves first and (second, first) *)
(* when B does.  Every cell is exactly one leaf and all ids differ.        *)
(***************************************************************************)
DigitText == <<"0", "1", "2">>

ExpectedLeafId(row, col) ==
  <<"l", "e", "a", "f", "-", DigitText[row + 1], "-", DigitText[col + 1]>>

LabelsOf(m, player) == IF player = "A" THEN m.rowLabels ELSE m.colLabels

\* the leaf reached by the f-th edge of the root and the s-th edge below it
LeafAt(tree, f, s) == tree.children[f].child.children[s].child

TreeIds(tree) ==
  {tree.id}
    \cup {tree.children[f].child.id : f \in DOMAIN tree.children}
    \cup UNION {{LeafAt(tree, f, s).id :
                   s \in DOMAIN tree.children[f].child.children} :
                  f \in DOMAIN tree.children}

C13_TreeShape ==
  pc = "sequential" =>
    LET fm == game.firstMover
        sm == IF fm = "A" THEN "B" ELSE "A"
        nF == IF fm = "A" THEN matrix.rows ELSE matrix.cols
        nS == IF fm = "A" THEN matrix.cols ELSE matrix.rows
        root == game.tree
    IN  /\ root.player = fm
        /\ ~isLeaf(root)
        /\ DOMAIN root.children = 1 .. nF
        /\ \A f \in 1 .. nF :
             LET node == root.children[f].child
             IN  /\ root.children[f].label = LabelsOf(matrix, fm)[f - 1]
                 /\ ~isLeaf(node)
                 /\ node.player = sm
                 /\ DOMAIN node.children = 1 .. nS
                 /\ \A s \in 1 .. nS :
                      LET leaf == node.children[s].child
                          row == IF fm = "A" THEN f - 1 ELSE s - 1
                          col == IF fm = "A" THEN s - 1 ELSE f - 1
                      IN  /\ node.children[s].label = LabelsOf(matrix, sm)[s - 1]
                          /\ isLeaf(leaf)
                          /\ "children" \notin DOMAIN leaf
                          /\ leaf.id = ExpectedLeafId(row, col)
                          /\ leaf.payoffs = matrix.cells[row][col]
        /\ \A r \in 0 .. (matrix.rows - 1) : \A c \in 0 .. (matrix.cols - 1) :
             Cardinality({x \in (1 .. nF) \X (1 .. nS) :
                            LeafAt(root, x[1], x[2]).id = ExpectedLeafId(r, c)}) = 1
        /\ Cardinality(TreeIds(root)) = 1 + nF + nF * nS

\* a 3x3 tree with Player B moving first whose leaf leaf-0-2 is reached by
\* B's third strategy and then A's first
C13_Witness ==
  /\ pc = "sequential"
  /\ game.firstMover = "B"
  /\ matrix.rows = 3
  /\ LeafAt(game.tree, 3, 1).id = ExpectedLeafId(0, 2)
  /\ matrix.cells[0][2] # matrix.cells[2][0]

(***************************************************************************)
(* C14: the select_all_nash question lists every cell in row-major order   *)
(* and then "No Nash Equilibrium exists", is multiSelect, and its          *)
(* correctIndices are the option indices of the equilibrium cells, or the  *)
(* index of the sentinel alone when there is none; correctIndex is the     *)
(* first of correctIndices.                                                *)
(***************************************************************************)
\* the option index of cell (r, c) in row-major order
CellIndex(m, r, c) == r * m.cols + c

\* the row-major indices of the cells that pass the best-response test, in
\* increasing order
RECURSIVE Increasing(_)
Increasing(S) ==
  IF S = {} THEN <<>>
  ELSE LET least == CHOOSE x \in S : \A y \in S : x <= y
       IN  <<least>> \o Increasing(S \ {least})

C14_SelectAllNash ==
  (pc = "question_ready" /\ question.category = "select_all_nash") =>
    LET n == matrix.rows * matrix.cols
        equilibria == {CellIndex(matrix, cell[1], cell[2]) :
                         cell \in BestResponseCells(matrix)}
    IN  /\ Len(question.options) = n + 1
        /\ \A r \in 0 .. (matrix.rows - 1) : \A c \in 0 .. (matrix.cols - 1) :
             question.options[CellIndex(matrix, r, c) + 1] =
               <<"(", matrix.rowLabels[r], ", ", matrix.colLabels[c], ")">>
        /\ question.options[n + 1] = <<"No Nash Equilibrium exists">>
        /\ question.multiSelect = TRUE
        /\ question.correctIndices =
             IF equilibria = {} THEN <<n>> ELSE Increasing(equilibria)
        /\ question.correctIndex = question.correctIndices[1]

\* a 3x3 select_all_nash question with two equilibria
C14_Witness ==
  /\ pc = "question_ready"
  /\ question.category = "select_all_nash"
  /\ matrix.rows = 3
  /\ Len(question.correctIndices) = 2

(***************************************************************************)
(* C15: when the matrix has no pure Nash equilibrium the                   *)
(* willingness_to_pay generator returns a well-formed question of          *)
(* category nash_equilibrium.  The question it returns has that category   *)
(* and a valid correctIndex, but only 4 options.                           *)
(***************************************************************************)
C15_FallbackIsWellFormed ==
  (/\ pc = "question_ready"
   /\ gen.category = "willingness_to_pay"
   /\ BestResponseCells(matrix) = {}) =>
    /\ question.category = "nash_equilibrium"
    /\ Len(question.options) = 5
    /\ question.correctIndex \in 0 .. (Len(question.options) - 1)
    /\ question.options[question.correctIndex + 1] = question.correctAnswer
    /\ question.correctAnswer = NOTA

(***************************************************************************)
(* C16: performIEDS builds residualMatrix from the surviving rows and      *)
(* columns in increasing original index order: residual.cells[i][j] is the *)
(* original cell at (i-th surviving row, j-th surviving column), the       *)
(* labels are those of the surviving strategies, survivingCells is the     *)
(* product of the surviving rows and columns in original coordinates, and  *)
(* no step of performIEDS changes the input matrix.                        *)
(***************************************************************************)
\* the strategies of a player that no recorded step eliminated
Kept(m, steps, player) ==
  (0 .. ((IF player = "A" THEN m.rows ELSE m.cols) - 1))
    \ {steps[n].eliminated.index :
         n \in {k \in 1 .. Len(steps) : steps[k].eliminated.player = player}}

ResidualBuiltFromSurvivors ==
  iedsResult # NULL =>
    LET keptRows == Increasing(Kept(matrix, iedsResult.steps, "A"))
        keptCols == Increasing(Kept(matrix, iedsResult.steps, "B"))
        residual == iedsResult.residualMatrix
        cells == iedsResult.survivingCells
    IN  /\ residual # NULL
        /\ residual.rows = Len(keptRows)
        /\ residual.cols = Len(keptCols)
        /\ DOMAIN residual.cells = 0 .. (Len(keptRows) - 1)
        /\ \A i \in 0 .. (Len(keptRows) - 1) :
             /\ DOMAIN residual.cells[i] = 0 .. (Len(keptCols) - 1)
             /\ residual.rowLabels[i] = matrix.rowLabels[keptRows[i + 1]]
             /\ \A j \in 0 .. (Len(keptCols) - 1) :
                  /\ residual.cells[i][j] = matrix.cells[keptRows[i + 1]][keptCols[j + 1]]
                  /\ residual.colLabels[j] = matrix.colLabels[keptCols[j + 1]]
        /\ DOMAIN residual.rowLabels = 0 .. (Len(keptRows) - 1)
        /\ DOMAIN residual.colLabels = 0 .. (Len(keptCols) - 1)
        /\ Len(cells) = Len(keptRows) * Len(keptCols)
        /\ {<<cells[n].row, cells[n].col>> : n \in 1 .. Len(cells)}
             = Kept(matrix, iedsResult.steps, "A") \X Kept(matrix, iedsResult.steps, "B")

C16_ResidualConstruction ==
  /\ [](ResidualBuiltFromSurvivors)
  /\ [][matrix' = matrix]_vars

\* a 3x3 matrix that lost its first row and its second column, so that the
\* residual re-indexes both
C16_Witness ==
  /\ iedsResult # NULL
  /\ matrix.rows = 3
  /\ Kept(matrix, iedsResult.steps, "A") = {1, 2}
  /\ Kept(matrix, iedsResult.steps, "B") = {0, 2}
  /\ iedsResult.residualMatrix.cells[0][1] = matrix.cells[1][2]
  /\ matrix.cells[1][2] # matrix.cells[0][1]

(***************************************************************************)
(* C17: each pass of performIEDS eliminates one strategy and records it as *)
(* the next step: the lowest-index active row strictly dominated, over the *)
(* active columns, by some active row; only when there is no such row, the *)
(* lowest-index active column strictly dominated, over the active rows, by *)
(* some active column.  A strategy that is weakly but not strictly         *)
(* dominated is never eliminated, and the loop stops at the first pass     *)
(* that eliminates nothing.                                                *)
(***************************************************************************)
Members(S) == {S[n] : n \in 1 .. Len(S)}

Lowest(S) == CHOOSE x \in S : \A y \in S : x <= y

EliminableRows(m, st) ==
  {i \in Members(st.activeRows) :
     AltRowDominated(m, i, Members(st.activeRows), Members(st.activeCols))}

EliminableCols(m, st) ==
  {c \in Members(st.activeCols) :
     AltColDominated(m, c, Members(st.activeRows), Members(st.activeCols))}

Elimination(player, index, labels) ==
  [player |-> player, index |-> index, label |-> labels[index]]

\* a pass of the while loop, from the state before it to the state after it
PassEliminatesLowest ==
  (pc = "ieds_loop" /\ ieds.changed /\ ieds' # ieds) =>
    IF EliminableRows(matrix, ieds) # {}
      THEN LET i == Lowest(EliminableRows(matrix, ieds))
           IN  /\ Len(ieds'.steps) = Len(ieds.steps) + 1
               /\ SubSeq(ieds'.steps, 1, Len(ieds.steps)) = ieds.steps
               /\ ieds'.steps[Len(ieds'.steps)].eliminated
                    = Elimination("A", i, matrix.rowLabels)
               /\ Members(ieds'.activeRows) = Members(ieds.activeRows) \ {i}
               /\ ieds'.activeCols = ieds.activeCols
               /\ ieds'.changed
    ELSE IF EliminableCols(matrix, ieds) # {}
      THEN LET c == Lowest(EliminableCols(matrix, ieds))
           IN  /\ Len(ieds'.steps) = Len(ieds.steps) + 1
               /\ SubSeq(ieds'.steps, 1, Len(ieds.steps)) = ieds.steps
               /\ ieds'.steps[Len(ieds'.steps)].eliminated
                    = Elimination("B", c, matrix.colLabels)
               /\ Members(ieds'.activeCols) = Members(ieds.activeCols) \ {c}
               /\ ieds'.activeRows = ieds.activeRows
               /\ ieds'.changed
    ELSE /\ ieds'.steps = ieds.steps
         /\ ieds'.activeRows = ieds.activeRows
         /\ ieds'.activeCols = ieds.activeCols
         /\ ~ieds'.changed

\* after a pass that eliminated nothing there is no further pass: the
\* result is built from the steps recorded so far
LoopStopsAfterEmptyPass ==
  (pc = "ieds_loop" /\ ~ieds.changed) =>
    /\ ieds' = ieds
    /\ (pc' # pc => pc' = "ieds_done" /\ iedsResult'.steps = ieds.steps)

C17_PassOrder == [][PassEliminatesLowest /\ LoopStopsAfterEmptyPass]_vars

\* the first pass found a row that is weakly but not strictly dominated,
\* left it alone and eliminated a column instead; the loop has stopped
\* with that row still active
C17_Witness ==
  /\ pc = "ieds_loop"
  /\ ~ieds.changed
  /\ Len(ieds.steps) = 1
  /\ ieds.steps[1].eliminated.player = "B"
  /\ \E i \in Members(ieds.activeRows) :
       \E j \in Members(ieds.activeRows) \ {i} :
         /\ \A c \in Rng(matrix.cols) :
              matrix.cells[j][c].a >= matrix.cells[i][c].a
         /\ \E c \in Rng(matrix.cols) :
              matrix.cells[j][c].a > matrix.cells[i][c].a

(***************************************************************************)
(* C18: for a matrix with a Nash equilibrium and at least two columns, the *)
(* correct answer of the willingness_to_pay question is max(0, P - Q): Q   *)
(* is Player A's payoff at the first row-major equilibrium of the matrix,  *)
(* P the highest Player A payoff among the equilibria of the game without  *)
(* the prohibited column (A's best response over all rows, B's over the    *)
(* remaining columns) or, when there is none, the highest Player A payoff  *)
(* of the remaining cells; the answer is never negative.                   *)
(***************************************************************************)
\* the column named in the question text
ProhibitedColumn(m, q) == CHOOSE c \in Rng(m.cols) : m.colLabels[c] = q.text[2]

Highest(S) == CHOOSE x \in S : \A y \in S : x >= y

FirstEquilibrium(m) ==
  CHOOSE x \in BestResponseCells(m) :
    \A y \in BestResponseCells(m) :
      x[1] * m.cols + x[2] <= y[1] * m.cols + y[2]

\* the cells of the game without column p that are best responses of both
ReducedEquilibria(m, p) ==
  {x \in Rng(m.rows) \X (Rng(m.cols) \ {p}) :
     /\ \A r2 \in Rng(m.rows) : m.cells[x[1]][x[2]].a >= m.cells[r2][x[2]].a
     /\ \A c2 \in Rng(m.cols) \ {p} : m.cells[x[1]][x[2]].b >= m.cells[x[1]][c2].b}

ReducedBest(m, p) ==
  LET ofCells(S) == {m.cells[x[1]][x[2]].a : x \in S}
  IN  IF ReducedEquilibria(m, p) # {}
        THEN Highest(ofCells(ReducedEquilibria(m, p)))
        ELSE Highest(ofCells(Rng(m.rows) \X (Rng(m.cols) \ {p})))

ExpectedWtp(m, p) ==
  LET ne == FirstEquilibrium(m)
      gain == ReducedBest(m, p) - m.cells[ne[1]][ne[2]].a
  IN  IF gain > 0 THEN gain ELSE 0

WtpAsked ==
  /\ pc = "question_ready"
  /\ gen.category = "willingness_to_pay"
  /\ BestResponseCells(matrix) # {}
  /\ matrix.cols >= 2

C18_WillingnessToPay ==
  WtpAsked =>
    /\ question.category = "willingness_to_pay"
    /\ question.correctAnswer
         = NumText(ExpectedWtp(matrix, ProhibitedColumn(matrix, question)))
    /\ ValidIndex(question, question.correctIndex)
    /\ question.options[question.correctIndex + 1] = question.correctAnswer
    /\ ExpectedWtp(matrix, ProhibitedColumn(matrix, question)) >= 0

\* the equilibrium column is prohibited, the reduced game has no
\* equilibrium, and the best remaining payoff exceeds the equilibrium payoff
C18_Witness ==
  /\ WtpAsked
  /\ question.category = "willingness_to_pay"
  /\ ProhibitedColumn(matrix, question) = FirstEquilibrium(matrix)[2]
  /\ ReducedEquilibria(matrix, ProhibitedColumn(matrix, question)) = {}
  /\ question.correctAnswer = NumText(2)

(***************************************************************************)
(* C19: for every matrix the correct answer of the consulting_offer        *)
(* question is an offer whose profit is >= the profit of every other offer *)
(* listed.  Helping A earns max(0, A's payoff at the backward-induction    *)
(* outcome of the game A moves first in, minus A's payoff at the first     *)
(* row-major Nash equilibrium); helping B likewise with B's payoff and the *)
(* game B moves first in; helping neither earns 0; the baseline is 0 for   *)
(* both players when the matrix has no Nash equilibrium.                   *)
(***************************************************************************)
ExpectedProfit(m, player) ==
  LET ne == FirstEquilibrium(m)
      baseline == IF BestResponseCells(m) = {} THEN 0
                  ELSE OwnPayoff(m, player, [row |-> ne[1], col |-> ne[2]])
      gain == OwnPayoff(m, player, ExpectedOutcome(m, player)) - baseline
  IN  IF gain > 0 THEN gain ELSE 0

HelpOffer(m, player) ==
  <<IF player = "A" THEN "Help Player A move first, charging "
                    ELSE "Help Player B move first, charging ">>
    \o NumText(ExpectedProfit(m, player))

HelpNeither == <<"Help neither player (profit = 0)">>

IsHelpBoth(o) == Len(o) = 2 /\ o[1] = "Help both players simultaneously, charging "

\* the largest difference of two payoffs, hence the largest profit an
\* offer can name
MaxProfit == PayoffRange("hard")[2] - PayoffRange("hard")[1]

IsOffer(m, o) ==
  o \in {HelpOffer(m, "A"), HelpOffer(m, "B"), HelpNeither} \/ IsHelpBoth(o)

\* the profit of a listed offer
ListedProfit(m, o) ==
  IF o = HelpOffer(m, "A") THEN ExpectedProfit(m, "A")
  ELSE IF o = HelpOffer(m, "B") THEN ExpectedProfit(m, "B")
  ELSE IF o = HelpNeither THEN 0
  ELSE CHOOSE n \in 0 .. MaxProfit : NumText(n) = <<o[2]>>

ConsultingAsked == pc = "question_ready" /\ gen.category = "consulting_offer"

C19_BestOfferIsCorrect ==
  ConsultingAsked =>
    /\ question.category = "consulting_offer"
    /\ ValidIndex(question, question.correctIndex)
    /\ question.options[question.correctIndex + 1] = question.correctAnswer
    /\ IsOffer(matrix, question.correctAnswer)
    /\ \A o \in {HelpOffer(matrix, "A"), HelpOffer(matrix, "B"), HelpNeither} :
         ArrIncludes(question.options, o)
    /\ \A k \in 1 .. Len(question.options) :
         /\ IsHelpBoth(question.options[k]) =>
              \E n \in 0 .. MaxProfit : NumText(n) = <<question.options[k][2]>>
         /\ IsOffer(matrix, question.options[k]) =>
              ListedProfit(matrix, question.correctAnswer)
                >= ListedProfit(matrix, question.options[k])

\* helping B is the correct answer: it earns more than helping A does
C19_Witness ==
  /\ ConsultingAsked
  /\ question.correctAnswer = HelpOffer(matrix, "B")
  /\ ExpectedProfit(matrix, "B") > ExpectedProfit(matrix, "A")
  /\ ArrIncludes(question.options, HelpOffer(matrix, "A"))

(***************************************************************************)
(* C20: the correct answer of a sequential_first_mover (resp.              *)
(* sequential_second_mover) question is the backward-induction outcome     *)
(* cell, with its payoffs from the matrix, of the game Player A (resp.     *)
(* Player B) moves first in.  A supplied game built from the same matrix   *)
(* is reused only when its first mover is the needed one, so the answer    *)
(* does not depend on the first mover of the supplied game.                *)
(***************************************************************************)
NeededFirstMover(category) ==
  IF category = "sequential_first_mover" THEN "A" ELSE "B"

\* `(${rowLabel}, ${colLabel}) with payoffs (${a}, ${b})` of a cell
OutcomeOption(m, cell) ==
  <<"(", m.rowLabels[cell.row], ", ", m.colLabels[cell.col], ")",
    " with payoffs ",
    "(", ToString(m.cells[cell.row][cell.col].a), ", ",
    ToString(m.cells[cell.row][cell.col].b), ")">>

SequentialOutcomeAsked ==
  /\ pc = "question_ready"
  /\ gen.category \in {"sequential_first_mover", "sequential_second_mover"}

C20_SequentialOutcomeAnswer ==
  SequentialOutcomeAsked =>
    /\ question.category = gen.category
    /\ question.correctAnswer
         = OutcomeOption(matrix,
             ExpectedOutcome(matrix, NeededFirstMover(gen.category)))
    /\ ValidIndex(question, question.correctIndex)
    /\ question.options[question.correctIndex + 1] = question.correctAnswer

\* the supplied game has the other first mover, and its outcome is another
\* cell than the one of the game the question is about
C20_Witness ==
  /\ SequentialOutcomeAsked
  /\ game # NULL
  /\ game.matrix = matrix
  /\ game.firstMover # NeededFirstMover(gen.category)
  /\ game.backwardInductionOutcome
       # ExpectedOutcome(matrix, NeededFirstMover(gen.category))
  /\ question.correctAnswer
       # OutcomeOption(matrix, game.backwardInductionOutcome)

(***************************************************************************)
(* C21: the reducer's marking actions TOGGLE_ELIMINATE_ROW,                *)
(* TOGGLE_ELIMINATE_COL, TOGGLE_CIRCLE_PAYOFF, RESET_MARKINGS,             *)
(* TOGGLE_TREE_EDGE, ASSIGN_LEAF_PAYOFF, CLEAR_LEAF_PAYOFF and RESET_TREE, *)
(* in any state and any order, leave matrix, sequentialGame, question, the *)
(* selected answer(s), the submission status, isCorrect and the score      *)
(* unchanged: they change only the elimination or the tree markings.       *)
(***************************************************************************)
EliminationAction ==
  \/ TOGGLE_ELIMINATE_ROW
  \/ TOGGLE_ELIMINATE_COL
  \/ TOGGLE_CIRCLE_PAYOFF
  \/ RESET_MARKINGS

TreeAction ==
  \/ TOGGLE_TREE_EDGE
  \/ ASSIGN_LEAF_PAYOFF
  \/ CLEAR_LEAF_PAYOFF
  \/ RESET_TREE

\* the part of the state that is neither an elimination nor a tree marking
AnswerUnchanged ==
  /\ ui'.difficulty = ui.difficulty
  /\ ui'.selectedAnswer = ui.selectedAnswer
  /\ ui'.selectedAnswers = ui.selectedAnswers
  /\ ui'.isSubmitted = ui.isSubmitted
  /\ ui'.isCorrect = ui.isCorrect
  /\ ui'.score = ui.score

C21_MarkingsLeaveGameAlone ==
  [][/\ EliminationAction \/ TreeAction =>
          UNCHANGED <<matrix, game, question>> /\ AnswerUnchanged
     /\ EliminationAction => ui'.treeState = ui.treeState
     /\ TreeAction => ui'.elimination = ui.elimination]_vars

\* markings of both kinds made around a submission that scored
C21_Witness ==
  /\ pc = "ui"
  /\ ui.isSubmitted
  /\ ui.score = [correct |-> 1, total |-> 1]
  /\ ui.elimination.eliminatedRows = <<0>>
  /\ Len(ui.elimination.circledPayoffs) = 1
  /\ Len(ui.treeState.highlightedEdges) = 1
  /\ DOMAIN ui.treeState.leafPayoffs = LeafInputs

(***************************************************************************)
(* C22: SET_FIRST_MOVER leaves the state unchanged unless the difficulty   *)
(* is "hard"; in hard mode it replaces sequentialGame by a freshly built   *)
(* buildSequentialGame(current matrix, chosen player) and clears the tree  *)
(* markings, while matrix, question, the elimination markings, the         *)
(* selection, the submission status and the score stay unchanged.          *)
(***************************************************************************)
FirstMoverEffect ==
  SET_FIRST_MOVER =>
    IF ui.difficulty # "hard"
      THEN UNCHANGED <<matrix, game, question, ui>>
      ELSE /\ ui'.treeState = createFreshTreeState
           /\ UNCHANGED <<matrix, question>>
           /\ ui'.elimination = ui.elimination
           /\ AnswerUnchanged
           /\ \E player \in Players :
                /\ game'.firstMover = player
                /\ game'.backwardInductionOutcome = ExpectedOutcome(matrix, player)
                /\ game' = buildSequentialGame(matrix, player)

C22_SetFirstMover == [][FirstMoverEffect]_vars

\* a hard game after a submission, with elimination markings and no tree
\* markings, whose sequential game has Player B move first
C22_Witness ==
  /\ pc = "ui"
  /\ ui.difficulty = "hard"
  /\ ui.isSubmitted
  /\ ui.elimination.eliminatedRows # <<>>
  /\ ui.treeState = createFreshTreeState
  /\ game = buildSequentialGame(matrix, "B")

(***************************************************************************)
(* C23: for every matrix, the pure Nash equilibria of                      *)
(* performIEDS(matrix).residualMatrix, mapped back to original row and     *)
(* column indices, are exactly the pure Nash equilibria of the matrix; in  *)
(* particular every cell findNashEquilibria(matrix) returns is in          *)
(* survivingCells.                                                         *)
(***************************************************************************)
\* the cells findNashEquilibria returns, as <<row, col>> pairs
NashCells(m) ==
  {<<findNashEquilibria(m)[n].row, findNashEquilibria(m)[n].col>> :
     n \in 1 .. Len(findNashEquilibria(m))}

\* the residual equilibria in original coordinates
MappedBack(m, result) ==
  LET keptRows == Increasing(Kept(m, result.steps, "A"))
      keptCols == Increasing(Kept(m, result.steps, "B"))
  IN  {<<keptRows[x[1] + 1], keptCols[x[2] + 1]>> :
         x \in NashCells(result.residualMatrix)}

C23_ResidualKeepsEquilibria ==
  (pc = "ieds_done" /\ iedsResult.residualMatrix # NULL) =>
    /\ MappedBack(matrix, iedsResult) = NashCells(matrix)
    /\ NashCells(matrix) = BestResponseCells(matrix)
    /\ \A x \in NashCells(matrix) :
         \E n \in 1 .. Len(iedsResult.survivingCells) :
           /\ iedsResult.survivingCells[n].row = x[1]
           /\ iedsResult.survivingCells[n].col = x[2]

\* a 3x3 matrix that lost its first row and a column and kept an
\* equilibrium, whose residual index differs from its original index
C23_Witness ==
  /\ pc = "ieds_done"
  /\ matrix.rows = 3
  /\ 0 \notin Kept(matrix, iedsResult.steps, "A")
  /\ Cardinality(Kept(matrix, iedsResult.steps, "B")) = 2
  /\ NashCells(matrix) # {}
  /\ NashCells(iedsResult.residualMatrix) # NashCells(matrix)

(***************************************************************************)
(* C24: for every matrix with at least one row and one column, performIEDS *)
(* terminates with at least one surviving row and one surviving column:    *)
(* residualMatrix is never null, survivingCells is never empty, and the    *)
(* number of recorded steps is (rows minus surviving rows) plus (cols      *)
(* minus surviving columns), at most rows + cols - 2.                      *)
(***************************************************************************)
\* performIEDS alone, each of its steps taken when it can be
NextRun == IEDSIterate \/ IEDSReturn

SpecRun ==
  InitIEDS /\ [][NextRun]_vars /\ WF_vars(IEDSIterate) /\ WF_vars(IEDSReturn)

StepsAccountForEliminations ==
  pc = "ieds_loop" =>
    /\ Len(ieds.activeRows) >= 1
    /\ Len(ieds.activeCols) >= 1
    /\ Len(ieds.steps)
         = (matrix.rows - Len(ieds.activeRows)) + (matrix.cols - Len(ieds.activeCols))

SurvivorsRemain ==
  pc = "ieds_done" =>
    /\ iedsResult.residualMatrix # NULL
    /\ iedsResult.residualMatrix.rows >= 1
    /\ iedsResult.residualMatrix.cols >= 1
    /\ Len(iedsResult.survivingCells) >= 1
    /\ Len(iedsResult.steps)
         = (matrix.rows - iedsResult.residualMatrix.rows)
             + (matrix.cols - iedsResult.residualMatrix.cols)
    /\ Len(iedsResult.steps) <= matrix.rows + matrix.cols - 2

C24_TerminatesWithSurvivors ==
  /\ [](StepsAccountForEliminations /\ SurvivorsRemain)
  /\ <>(pc = "ieds_done")

\* a 3x3 matrix reduced to one cell by the greatest number of steps
C24_Witness ==
  /\ pc = "ieds_done"
  /\ matrix.rows = 3
  /\ Len(iedsResult.steps) = matrix.rows + matrix.cols - 2
  /\ Len(iedsResult.survivingCells) = 1

(***************************************************************************)
(* C25: every 2x2 matrix that passes the "easy" usefulness predicate (no   *)
(* payoff ties, a dominated strategy, a Nash equilibrium) has exactly one  *)
(* pure Nash equilibrium.  So the "at least 2 Nash equilibria" constraint  *)
(* is never satisfied by an easy 2x2 matrix: when it is drawn, the first   *)
(* 100 attempts all reject and only the relaxed second loop can accept.    *)
(***************************************************************************)
EasyWithConstraint ==
  gen.difficulty = "easy" /\ gen.wantMultipleNash

C25_EasyHasOneEquilibrium ==
  /\ (pc = "gen_accepted" /\ gen.difficulty = "easy") =>
       /\ matrix.rows = 2 /\ matrix.cols = 2
       /\ Cardinality(BestResponseCells(matrix)) = 1
       /\ Len(findNashEquilibria(matrix)) = 1
       /\ gen.wantMultipleNash => gen.loop = "second"
  /\ (pc = "gen_loop" /\ EasyWithConstraint /\ gen.loop = "first") =>
       /\ ~ENABLED GenAccept
       /\ gen.attempt < MaxAttempts => ENABLED GenReject
       /\ gen.evaluated = gen.attempt

\* the constraint was drawn for an easy game and the second loop accepted
\* a matrix with one equilibrium
C25_Witness ==
  /\ pc = "gen_accepted"
  /\ EasyWithConstraint
  /\ gen.loop = "second"
  /\ Cardinality(BestResponseCells(matrix)) = 1

(***************************************************************************)
(* C26: when the second mover has no tied payoffs among its replies (B     *)
(* within any row when A moves first, A within any column when B moves     *)
(* first), the backward-induction outcome gives the first mover a payoff   *)
(* >= its payoff at every pure Nash equilibrium.  Hence on a matrix        *)
(* without ties that has an equilibrium, the gain the consulting_offer     *)
(* question computes for the first mover is non-negative.                  *)
(***************************************************************************)
NoReplyTies(m, firstMover) ==
  IF firstMover = "A"
    THEN \A r \in Rng(m.rows) : \A c1, c2 \in Rng(m.cols) :
           c1 # c2 => m.cells[r][c1].b # m.cells[r][c2].b
    ELSE \A c \in Rng(m.cols) : \A r1, r2 \in Rng(m.rows) :
           r1 # r2 => m.cells[r1][c].a # m.cells[r2][c].a

\* the first mover's payoff at the outcome minus its payoff at nash[0]
FirstMoverGain(g) ==
  OwnPayoff(g.matrix, g.firstMover, g.backwardInductionOutcome)
    - OwnPayoff(g.matrix, g.firstMover, findNashEquilibria(g.matrix)[1])

C26_FirstMoverNoWorseThanNash ==
  pc = "sequential" =>
    /\ NoReplyTies(matrix, game.firstMover) =>
         \A x \in BestResponseCells(matrix) :
           OwnPayoff(matrix, game.firstMover, game.backwardInductionOutcome)
             >= OwnPayoff(matrix, game.firstMover, [row |-> x[1], col |-> x[2]])
    /\ (~hasEqualPayoffs(matrix) /\ Len(findNashEquilibria(matrix)) > 0) =>
         FirstMoverGain(game) >= 0

\* A moves first on a matrix where A itself is tied within a column, B is
\* never tied within a row, and A ends strictly better than at an equilibrium
C26_Witness ==
  /\ pc = "sequential"
  /\ game.firstMover = "A"
  /\ NoReplyTies(matrix, "A")
  /\ ~NoReplyTies(matrix, "B")
  /\ \E x \in BestResponseCells(matrix) :
       OwnPayoff(matrix, "A", game.backwardInductionOutcome)
         > OwnPayoff(matrix, "A", [row |-> x[1], col |-> x[2]])

(***************************************************************************)
(* C27: once an answer is submitted, SELECT_ANSWER, TOGGLE_ANSWER and      *)
(* SUBMIT_ANSWER leave the state unchanged, and the answer stays as        *)
(* submitted until NEW_GAME or SET_DIFFICULTY brings a new question.  So   *)
(* score.total grows by exactly one per question submitted,                *)
(* 0 <= score.correct <= score.total always, NEW_GAME keeps the score and  *)
(* SET_DIFFICULTY resets it to 0/0.                                        *)
(***************************************************************************)
ZeroScore == [correct |-> 0, total |-> 0]

ScoreInRange ==
  pc = "ui" => 0 <= ui.score.correct /\ ui.score.correct <= ui.score.total

\* what createNewGame leaves of the answer
AnswerFresh(u) ==
  /\ ~u.isSubmitted
  /\ u.isCorrect = {}
  /\ u.selectedAnswer = {}
  /\ u.selectedAnswers = <<>>

SubmissionStep ==
  /\ ~ui.isSubmitted
  /\ ui'.isSubmitted
  /\ ui'.score.total = ui.score.total + 1
  /\ ui'.score.correct = ui.score.correct + (IF ui'.isCorrect = {TRUE} THEN 1 ELSE 0)
  /\ UNCHANGED <<matrix, game, question>>

SubmittedStays ==
  /\ ui.isSubmitted =>
       \/ AnswerUnchanged /\ UNCHANGED <<matrix, question>>
       \/ AnswerFresh(ui')
  /\ (ui.isSubmitted /\ ~UNCHANGED <<matrix, game, question, ui>>) =>
       ~(SELECT_ANSWER \/ TOGGLE_ANSWER \/ SUBMIT_ANSWER)

ScoreSteps ==
  /\ ui'.isSubmitted # ui.isSubmitted => SubmissionStep \/ AnswerFresh(ui')
  /\ ui'.score # ui.score =>
       /\ SubmissionStep \/ (ui'.score = ZeroScore /\ AnswerFresh(ui'))
       /\ ~NEW_GAME
  /\ ui'.score # ZeroScore => ~SET_DIFFICULTY

C27_SubmittedUntilNewQuestion ==
  []ScoreInRange /\ [][SubmittedStays /\ ScoreSteps]_vars

\* two questions were submitted, one of them answered correctly, and the
\* second one is still on screen
C27_Witness ==
  /\ pc = "ui"
  /\ ui.isSubmitted
  /\ ui.isCorrect = {FALSE}
  /\ ui.score = [correct |-> 1, total |-> 2]

(***************************************************************************)
(* C28: SUBMIT_ANSWER on a multi-select question with a non-empty          *)
(* selection sets isCorrect to true exactly when the set of selected       *)
(* indices equals the set of correctIndices, whatever their order, and is  *)
(* a no-op when nothing is selected; on a single-select question it sets   *)
(* isCorrect to true exactly when selectedAnswer equals correctIndex, and  *)
(* is a no-op when selectedAnswer is null.                                 *)
(***************************************************************************)
SubmitVerdict ==
  IF IsMultiSelect(question)
    THEN IF ui.selectedAnswers = <<>> THEN UNCHANGED ui
         ELSE /\ ui'.isSubmitted
              /\ ui'.isCorrect
                   = {Members(ui.selectedAnswers) = Members(question.correctIndices)}
    ELSE IF ui.selectedAnswer = {} THEN UNCHANGED ui
         ELSE /\ ui'.isSubmitted
              /\ ui'.isCorrect = {ui.selectedAnswer = {question.correctIndex}}

C28_SubmitVerdict ==
  [][(~ui.isSubmitted /\ SUBMIT_ANSWER) => SubmitVerdict]_vars

\* the two correct options of a multi-select question were selected in the
\* other order and the submission counted as correct
C28_Witness ==
  /\ pc = "ui"
  /\ IsMultiSelect(question)
  /\ Len(question.correctIndices) = 2
  /\ ui.selectedAnswers
       = <<question.correctIndices[2], question.correctIndices[1]>>
  /\ question.correctIndices[1] # question.correctIndices[2]
  /\ ui.isSubmitted
  /\ ui.isCorrect = {TRUE}

(***************************************************************************)
(* C29: in every nash_equilibrium and ieds_survivors question the option   *)
(* at correctIndex is the only option that denotes the correct set of      *)
(* cells: no other option, an option padded from a pair of cells           *)
(* included, lists the cells of the correct answer in another order.  The  *)
(* code does not do this: when the correct answer names two cells of a     *)
(* 2x2 matrix, the fourth option is a shuffled pair of cells and can be    *)
(* the same two cells in the other order.                                  *)
(***************************************************************************)
\* the cells whose label occurs in the option
CellsListed(m, o) ==
  {x \in Rng(m.rows) \X Rng(m.cols) : StrIncludes(o, CellLabel(m, x[1], x[2]))}

\* the option is cell labels joined by ", " and nothing else
IsCellList(m, o) ==
  /\ CellsListed(m, o) # {}
  /\ \E cells \in ShufflePrefix(allCellsOf(m), Cardinality(CellsListed(m, o))) :
       o = Join(cells)

CellQuestionAsked ==
  /\ pc = "question_ready"
  /\ question.category \in {"nash_equilibrium", "ieds_survivors"}

C29_OnlyCorrectOptionListsAnswer ==
  (CellQuestionAsked /\ question.correctAnswer # NOTA) =>
    \A k \in 1 .. Len(question.options) :
      (/\ IsCellList(matrix, question.options[k])
       /\ CellsListed(matrix, question.options[k])
            = CellsListed(matrix, question.correctAnswer))
        => k = question.correctIndex + 1

(***************************************************************************)
(* C30: for every matrix the "Help both players simultaneously" offer of a *)
(* consulting_offer question is only ever a distractor: the correct answer *)
(* is "Help Player A move first", "Help Player B move first" or "Help      *)
(* neither player".  The code does not do this: when a gain is negative    *)
(* the distance between the gains exceeds both profits, and the synthetic  *)
(* offer is the best offer and the correct answer.                         *)
(***************************************************************************)
C30_HelpBothIsDistractor ==
  ConsultingAsked =>
    /\ ~IsHelpBoth(question.correctAnswer)
    /\ ~IsHelpBoth(question.options[question.correctIndex + 1])
    /\ question.correctAnswer
         \in {HelpOffer(matrix, "A"), HelpOffer(matrix, "B"), HelpNeither}

====
